---------------------------- MODULE Spec2Model ----------------------------
(***************************************************************************)
(* Model of the Lamassu transaction processor                              *)
(* (src/transaction_processor.py, class LamassuTransactionProcessor):      *)
(* the poll cycle, the per-transaction pipeline and the commission /       *)
(* proportional-share arithmetic.                                          *)
(*                                                                         *)
(* The arithmetic of the source is Python float arithmetic (IEEE-754       *)
(* binary64, round to nearest even).  It is modelled bit-exactly on        *)
(* non-negative values: a float is a 53-bit mantissa and an exponent, the  *)
(* mantissa held in limbs because TLC's integers are 32 bits wide.         *)
(***************************************************************************)
EXTENDS Integers, Sequences, FiniteSets, TLC

---------------------------------------------------------------------------
(* Multi-limb naturals: 8 limbs of 15 bits, least significant first.       *)

LimbBits == 15
LimbBase == 2^LimbBits
Limbs    == 8
MantBits == 53    \* binary64 significand, hidden bit included
GuardBits == 56   \* quotient bits produced before rounding a division
PairBase == LimbBase * LimbBase

BZero == <<0, 0, 0, 0, 0, 0, 0, 0>>
BOfNat(n) == <<n % LimbBase, (n \div LimbBase) % LimbBase, n \div PairBase>>
             \o SubSeq(BZero, 4, Limbs)
BToNat(a) == a[1] + LimbBase * a[2] + PairBase * a[3]

RECURSIVE BAddFrom(_, _, _, _)
BAddFrom(a, b, i, c) ==
    IF i > Limbs THEN <<>>
    ELSE LET s == a[i] + b[i] + c
         IN  <<s % LimbBase>> \o BAddFrom(a, b, i + 1, s \div LimbBase)
BAdd(a, b) == BAddFrom(a, b, 1, 0)

RECURSIVE BSubFrom(_, _, _, _)
BSubFrom(a, b, i, br) ==
    IF i > Limbs THEN <<>>
    ELSE LET s == a[i] - b[i] - br
         IN  IF s < 0 THEN <<s + LimbBase>> \o BSubFrom(a, b, i + 1, 1)
                      ELSE <<s>> \o BSubFrom(a, b, i + 1, 0)
BSub(a, b) == BSubFrom(a, b, 1, 0)

RECURSIVE BCmpFrom(_, _, _)
BCmpFrom(a, b, i) ==
    IF i = 0 THEN 0
    ELSE IF a[i] < b[i] THEN -1
    ELSE IF a[i] > b[i] THEN 1
    ELSE BCmpFrom(a, b, i - 1)
BCmp(a, b) == BCmpFrom(a, b, Limbs)

RECURSIVE BMulSmallFrom(_, _, _, _)
BMulSmallFrom(a, s, i, c) ==
    IF i > Limbs THEN <<>>
    ELSE LET p == a[i] * s + c
         IN  <<p % LimbBase>> \o BMulSmallFrom(a, s, i + 1, p \div LimbBase)
BMulSmall(a, s) == BMulSmallFrom(a, s, 1, 0)

BShiftLimbs(a, k) == SubSeq(SubSeq(BZero, 1, k) \o a, 1, Limbs)
BShl(a, n) == BShiftLimbs(BMulSmall(a, 2^(n % LimbBits)), n \div LimbBits)

\* a \div p for a power of two p <= LimbBase: limbs 1..i, hi = a[i+1] % p
RECURSIVE BDivPow2From(_, _, _, _)
BDivPow2From(a, p, i, hi) ==
    IF i = 0 THEN <<>>
    ELSE BDivPow2From(a, p, i - 1, a[i] % p)
         \o <<(a[i] \div p) + hi * (LimbBase \div p)>>
BShr(a, n) ==
    BDivPow2From(SubSeq(a, (n \div LimbBits) + 1, Limbs)
                     \o SubSeq(BZero, 1, n \div LimbBits),
                 2^(n % LimbBits), Limbs, 0)

RECURSIVE BMulFrom(_, _, _)
BMulFrom(a, b, i) ==
    IF i > Limbs THEN BZero
    ELSE IF b[i] = 0 THEN BMulFrom(a, b, i + 1)
    ELSE BAdd(BShiftLimbs(BMulSmall(a, b[i]), i - 1), BMulFrom(a, b, i + 1))
BMul(a, b) == BMulFrom(a, b, 1)

RECURSIVE BitLenSmall(_)
BitLenSmall(n) == IF n = 0 THEN 0 ELSE 1 + BitLenSmall(n \div 2)
RECURSIVE BTop(_, _)
BTop(a, i) == IF i = 0 THEN 0 ELSE IF a[i] # 0 THEN i ELSE BTop(a, i - 1)
BBitLen(a) == LET t == BTop(a, Limbs)
              IN  IF t = 0 THEN 0 ELSE LimbBits * (t - 1) + BitLenSmall(a[t])

(* Long division works on numbers below 2^60 held as <<low 30 bits, rest>>. *)
POfB(a) == <<a[1] + LimbBase * a[2], a[3] + LimbBase * a[4]>>
BOfP(p) == <<p[1] % LimbBase, p[1] \div LimbBase,
             p[2] % LimbBase, p[2] \div LimbBase>> \o SubSeq(BZero, 5, Limbs)
PDbl(p, bit) == <<(2 * p[1] + bit) % PairBase, 2 * p[2] + ((2 * p[1] + bit) \div PairBase)>>
PGeq(p, q) == p[2] > q[2] \/ (p[2] = q[2] /\ p[1] >= q[1])
PSub(p, q) == IF p[1] >= q[1] THEN <<p[1] - q[1], p[2] - q[2]>>
              ELSE <<p[1] - q[1] + PairBase, p[2] - q[2] - 1>>

\* one step of binary long division by d: s = <<quotient, remainder>>
PDivStep(s, d) ==
    IF PGeq(PDbl(s[2], 0), d)
    THEN <<PDbl(s[1], 1), PSub(PDbl(s[2], 0), d)>>
    ELSE <<PDbl(s[1], 0), PDbl(s[2], 0)>>
\* k steps; k is halved so that the evaluation stays shallow
RECURSIVE PDivSteps(_, _, _)
PDivSteps(s, d, k) ==
    IF k = 0 THEN s
    ELSE IF k = 1 THEN PDivStep(s, d)
    ELSE CHOOSE t \in {PDivSteps(mid, d, k - (k \div 2)) :
                         mid \in {PDivSteps(s, d, k \div 2)}} : TRUE

---------------------------------------------------------------------------
(* binary64 values >= 0: [m |-> mantissa, e |-> exponent], value m * 2^e,  *)
(* 2^52 <= m < 2^53, or m = 0.  Subnormals, infinities and NaN are out of  *)
(* reach of the amounts modelled.                                          *)

FZero == [m |-> BZero, e |-> 0]
FIsZero(x) == x.m = BZero

\* round to nearest, ties to even, of n * 2^e (plus a remainder if sticky)
FRound(n, e, sticky) ==
    LET len == BBitLen(n)
    IN  IF len = 0 THEN FZero
        ELSE IF len <= MantBits
        THEN [m |-> BShl(n, MantBits - len), e |-> e - (MantBits - len)]
        ELSE LET d    == len - MantBits
                 m0   == BShr(n, d)
                 rem  == BSub(n, BShl(m0, d))
                 half == BShl(BOfNat(1), d - 1)
                 c    == BCmp(rem, half)
                 up   == c > 0 \/ (c = 0 /\ (sticky \/ m0[1] % 2 = 1))
                 m1   == IF up THEN BAdd(m0, BOfNat(1)) ELSE m0
             IN  IF BBitLen(m1) > MantBits
                 THEN [m |-> BShr(m1, 1), e |-> e + d + 1]
                 ELSE [m |-> m1, e |-> e + d]

FMulV(x, y) == IF FIsZero(x) \/ FIsZero(y) THEN FZero
               ELSE FRound(BMul(x.m, y.m), x.e + y.e, FALSE)
FDivV(x, y) ==
    IF FIsZero(x) THEN FZero
    ELSE LET px == POfB(x.m)
             py == POfB(y.m)
             qr == PDivSteps(IF PGeq(px, py) THEN <<<<1, 0>>, PSub(px, py)>>
                                             ELSE <<<<0, 0>>, px>>,
                             py, GuardBits)
         IN  FRound(BOfP(qr[1]), x.e - y.e - GuardBits, qr[2] # <<0, 0>>)
FAddV(x, y) ==
    IF FIsZero(x) THEN y
    ELSE IF FIsZero(y) THEN x
    ELSE LET hi == IF x.e >= y.e THEN x ELSE y
             lo == IF x.e >= y.e THEN y ELSE x
         IN  FRound(BAdd(BShl(hi.m, hi.e - lo.e), lo.m), lo.e, FALSE)

\* float(n) for an int n >= 0; x * y; x / y (y # 0); x + y.  The operands
\* are bound to their values before the operation is evaluated.
FOfInt(n) == CHOOSE r \in {FRound(BOfNat(n), 0, FALSE)} : TRUE
FMul(x, y) == CHOOSE r \in {FMulV(fx, fy) : fx \in {x}, fy \in {y}} : TRUE
FDiv(x, y) == CHOOSE r \in {FDivV(fx, fy) : fx \in {x}, fy \in {y}} : TRUE
FAdd(x, y) == CHOOSE r \in {FAddV(fx, fy) : fx \in {x}, fy \in {y}} : TRUE
\* int(x): truncation
FTruncV(x) == IF FIsZero(x) THEN 0
              ELSE IF x.e >= 0 THEN BToNat(BShl(x.m, x.e))
              ELSE IF -x.e >= Limbs * LimbBits THEN 0
              ELSE BToNat(BShr(x.m, -x.e))
FTrunc(x) == CHOOSE r \in {FTruncV(fx) : fx \in {x}} : TRUE

---------------------------------------------------------------------------
(* calculate_distribution_amounts: commission decomposition and            *)
(* proportional shares.                                                    *)

None == 0 - 1     \* Python None where a number is expected

\* float(value) of a CSV decimal given in thousandths ("0.045" is 45):
\* the double nearest to the decimal
ParseDecimal(pm) == FDiv(FOfInt(pm), FOfInt(1000))

\* commission_percentage * (100 - discount) / 100
effective_commission(pm, discount) ==
    FDiv(FMul(ParseDecimal(pm), FOfInt(100 - discount)), FOfInt(100))

\* int(crypto_atoms / (1 + effective_commission))
base_crypto_atoms(crypto, pm, discount) ==
    FTrunc(FDiv(FOfInt(crypto), FAdd(FOfInt(1), effective_commission(pm, discount))))

\* the commission block: base amount and commission amount in sats
Decompose(crypto, pm, discount) ==
    IF pm > 0
    THEN [base       |-> base_crypto_atoms(crypto, pm, discount),
          commission |-> crypto - base_crypto_atoms(crypto, pm, discount)]
    ELSE [base |-> crypto, commission |-> 0]

\* base_crypto_atoms / fiat_amount if fiat_amount > 0 else 0
exchange_rate(base, fiat) ==
    IF fiat > 0 THEN FDiv(FOfInt(base), FOfInt(fiat)) ELSE FZero

RECURSIVE SumBalances(_, _)
SumBalances(bal, cs) ==
    IF cs = {} THEN 0
    ELSE LET c == CHOOSE d \in cs : TRUE
         IN  bal[c] + SumBalances(bal, cs \ {c})

\* sum(dist["sats_amount"] for dist in distributions.values())
RECURSIVE SumSats(_, _)
SumSats(alloc, cs) ==
    IF cs = {} THEN 0
    ELSE LET c == CHOOSE d \in cs : TRUE
         IN  alloc[c].sats + SumSats(alloc, cs \ {c})

\* variant: the share rounded up instead of truncated
client_sats_amount_ceil(base, balance, total) ==
    FTrunc(FMul(FOfInt(base), FDiv(FOfInt(balance), FOfInt(total)))) + 1

\* int(base_crypto_atoms * (client_balance / total_confirmed_deposits))
client_sats_amount(base, balance, total) ==
    FTrunc(FMul(FOfInt(base), FDiv(FOfInt(balance), FOfInt(total))))

\* int(client_sats_amount / exchange_rate) if exchange_rate > 0 else 0
client_fiat_amount(sats, rate) ==
    IF FIsZero(rate) THEN 0 ELSE FTrunc(FDiv(FOfInt(sats), rate))

\* The mapping client -> [sats, fiat] returned for a transaction
\* [crypto, fiat, pm, discount], the flow-mode clients and their remaining
\* balances as of the transaction time; <<>> is the empty mapping.
calculate_distribution_amounts(tx, flow, bal) ==
    LET included == {c \in flow : bal[c] > 0}
        total    == SumBalances(bal, included)
        base     == Decompose(tx.crypto, tx.pm, tx.discount).base
        rate     == exchange_rate(base, tx.fiat)
    IN  IF flow = {} THEN <<>>
        ELSE IF tx.crypto = None \/ tx.fiat = None THEN <<>>
        ELSE IF total = 0 THEN <<>>
        ELSE [c \in included |->
                LET sats == client_sats_amount(base, bal[c], total)
                IN  [sats |-> sats, fiat |-> client_fiat_amount(sats, rate)]]

---------------------------------------------------------------------------
(* The arithmetic on its own: one calculation on inputs drawn from         *)
(* bounded sets.                                                           *)

MaxSteps   == 5
MaxBalance == 6
AmountValues     == {11 * k : k \in 0..MaxSteps} \cup {10, 105000}
CommissionValues == {0, 50, 100}
DiscountValues   == {0, 50}
FiatValues       == {0, 15}
CalcClients      == {"A", "B"}

VARIABLES calcTx, calcBal, calcDec, calcDist, calcPc
calcVars == <<calcTx, calcBal, calcDec, calcDist, calcPc>>

CalcInit ==
    /\ calcTx \in [crypto : AmountValues, fiat : FiatValues,
                   pm : CommissionValues, discount : DiscountValues]
    /\ calcBal \in [CalcClients -> 0..MaxBalance]
    /\ calcDec = [base |-> 0, commission |-> 0]
    /\ calcDist = <<>>
    /\ calcPc = "input"

Calculate ==
    /\ calcPc = "input"
    /\ calcPc' = "done"
    /\ calcDec' = Decompose(calcTx.crypto, calcTx.pm, calcTx.discount)
    /\ calcDist' = calculate_distribution_amounts(calcTx, CalcClients, calcBal)
    /\ UNCHANGED <<calcTx, calcBal>>

---------------------------------------------------------------------------
(* The poll cycle (poll_and_process) and the per-transaction pipeline      *)
(* (process_transaction).  Time is counted in hours.  Each call of         *)
(* poll_and_process or process_transaction runs in a worker; its local     *)
(* variables are indexed by the worker.                                    *)

MaxTime  == 1
MaxCalls == 2
\* the two cash-ins of the remote ledger
TxIds       == {1, 2}
Workers     == {1, 2}
FlowClients == {"A", "B", "C"}

\* timedelta(hours=24): how far back the first poll looks
LookbackHours == 24

\* The row the query returns for transaction t (amounts in sats and fiat
\* units, commission in thousandths): 33 sats at 10 % for t = 1, 55 sats
\* without commission for t = 2
TxData(t) == [crypto |-> 11 * (2 * t + 1), fiat |-> 2 * t + 1,
              pm |-> IF t % 2 = 1 THEN 100 ELSE 0, discount |-> 0]

\* get_wallet(client.wallet_id): the wallet of B does not exist
ClientHasWallet(c) == c # "B"
\* amount of the one deposit a client makes
DepositAmount(c) == IF c = "A" THEN 3 ELSE IF c = "B" THEN 6 ELSE 2

VARIABLES
    now,          \* wall clock
    ledger,       \* remote ledger: confirmed_at of each dispensed transaction, or None
    deposits,     \* confirmation time of each client's deposit, or None
    payments,     \* table of DCA payments (PersistedPayment rows), in insertion order
    storedTxs,    \* table of stored Lamassu transactions
    payouts,      \* transfers made from the source wallet to client wallets
    lastPoll,     \* configuration record: last_poll_time
    lastSuccess,  \* configuration record: last_successful_poll
    credits,      \* per transaction: how many times the source wallet was credited
    commPaid,     \* per transaction: how many commission transfers were made
    calls,        \* calls made so far: poll cycles and direct calls
    table,        \* results of the arithmetic, computed at the start
    pc, batch, cur, stored, dist, comm,       \* worker: position and locals
    trace,        \* worker: steps of the transaction in hand, in execution order
    result,       \* worker: how each transaction of this cycle ended
    fetched,      \* worker: transactions returned by the fetch of this cycle
    cycStart,     \* worker: time at which the cycle started
    succAtStart,  \* worker: last_successful_poll when the cycle started
    outcome       \* worker: how the cycle stands

\* The SSH tunnel of the processor (setup_ssh_tunnel, close_ssh_tunnel)
VARIABLES
    SSH_AVAILABLE,    \* module flag set at import
    ssh_process,      \* the processor holds a subprocess handle
    ssh_key_path,     \* the processor holds the path of a temporary key file
    ssh_config_path,  \* the processor holds the path of a temporary config file
    procAlive,        \* the subprocess of the handle is running
    procOrphan,       \* a tunnel subprocess runs that no handle refers to
    keyFile,          \* the file at ssh_key_path is on disk
    keyLeft,          \* a key file no path refers to is on disk
    configFile,       \* the file at ssh_config_path is on disk
    configLeft,       \* a config file no path refers to is on disk
    returned,         \* what the last setup_ssh_tunnel returned
    path,             \* the path the last setup_ssh_tunnel took
    launched,         \* the last setup_ssh_tunnel started a tunnel subprocess
    wrote,            \* the last setup_ssh_tunnel wrote credential files
    attempts,         \* steps the last call of close_ssh_tunnel attempted
    failed,           \* steps of that call that raised
    lastOp, prevOp    \* the last two events of the tunnel

\* One call of send_dca_payment(client, distribution, lamassu_transaction_id)
VARIABLES
    payPc,        \* "off", "call" or "done"
    payIn,        \* the client, the amount and what the wallet API answers
    payOut        \* what the call did and returned

\* The connection test (test_connection_detailed) and its queries
VARIABLES
    probePc,      \* stage of the test that comes next
    probe,        \* the result dictionary of the test under way or returned
    lastQuery,    \* the last execute_ssh_query: what happened remotely, what it returned
    test_connection_success   \* the test result stored with the configuration

\* The exception handler of the connection test
VARIABLES
    errPc,        \* "off", "raised" or "handled"
    error_msg,    \* str(e): the words of the message the handler looks for
    errOut        \* the entry the handler appended to the step log

payVars   == <<payPc, payIn, payOut>>
probeVars == <<probePc, probe, lastQuery, test_connection_success>>
errVars   == <<errPc, error_msg, errOut>>
unitVars  == <<payVars, probeVars, errVars>>

channelVars == <<ssh_process, ssh_key_path, ssh_config_path, procAlive,
                 procOrphan, keyFile, keyLeft, configFile, configLeft>>
setupVars   == <<returned, path, launched, wrote>>
tunnelVars  == <<SSH_AVAILABLE, channelVars, setupVars, attempts, failed,
                 lastOp, prevOp>>

envVars    == <<now, ledger, deposits>>
dbVars     == <<payments, storedTxs, payouts, lastPoll, lastSuccess, credits,
                commPaid>>
constVars  == <<table, calcVars, tunnelVars, unitVars>>
countVars  == <<calls, constVars>>
localVars  == <<pc, batch, cur, stored, dist, comm, trace, result>>
cycleVars  == <<fetched, cycStart, succAtStart, outcome>>
pipeVars   == <<envVars, dbVars, calls, table, localVars, cycleVars>>
vars == <<calcVars, pipeVars, tunnelVars, unitVars>>

Set(f, w, v) == [f EXCEPT ![w] = v]
Ended(w, how) == result' = Set(result, w, (cur[w] :> how) @@ result[w])

\* get_client_balance_summary(client, as_of_time).remaining_balance:
\* confirmed deposits minus the fiat already distributed, as of the time
RECURSIVE PaidFiat(_, _, _)
PaidFiat(rows, c, asOf) ==
    IF rows = <<>> THEN 0
    ELSE PaidFiat(Tail(rows), c, asOf)
         + (IF Head(rows).client = c /\ Head(rows).status = "confirmed"
               /\ Head(rows).time <= asOf
            THEN Head(rows).fiat ELSE 0)
remaining_balance(c, asOf) ==
    (IF deposits[c] # None /\ deposits[c] <= asOf THEN DepositAmount(c) ELSE 0)
    - PaidFiat(payments, c, asOf)

\* get_payments_by_lamassu_transaction(transaction_id)
existing_payments(t) == {i \in DOMAIN payments : payments[i].tx = t}


\* variant: the start time is not recorded
poll_and_process_begin_unrecorded(w) ==
    /\ pc[w] = "idle"
    /\ calls < MaxCalls
    /\ calls' = calls + 1
    /\ UNCHANGED constVars
    /\ cycStart' = Set(cycStart, w, now)
    /\ succAtStart' = Set(succAtStart, w, lastSuccess)
    /\ fetched' = Set(fetched, w, {})
    /\ result' = Set(result, w, <<>>)
    /\ trace' = Set(trace, w, <<>>)
    /\ cur' = Set(cur, w, None)
    /\ batch' = Set(batch, w, <<>>)
    /\ \/ /\ outcome' = Set(outcome, w, "no_config")
          /\ UNCHANGED <<pc, lastPoll>>
       \/ /\ UNCHANGED lastPoll
          /\ outcome' = Set(outcome, w, "running")
          /\ pc' = Set(pc, w, "fetch")
       \/ /\ outcome' = Set(outcome, w, "error_at_start")
          /\ UNCHANGED <<pc, lastPoll>>
    /\ UNCHANGED <<envVars, payments, storedTxs, payouts, lastSuccess, credits, commPaid, stored, dist, comm>>

\* Start of poll_and_process: connect_to_lamassu_db, then
\* update_poll_start_time.  Without a configuration the cycle returns; an
\* exception of the update ends the cycle in the handler.
poll_and_process_begin(w) ==
    /\ pc[w] = "idle"
    /\ calls < MaxCalls
    /\ calls' = calls + 1
    /\ UNCHANGED constVars
    /\ cycStart' = Set(cycStart, w, now)
    /\ succAtStart' = Set(succAtStart, w, lastSuccess)
    /\ fetched' = Set(fetched, w, {})
    /\ result' = Set(result, w, <<>>)
    /\ trace' = Set(trace, w, <<>>)
    /\ cur' = Set(cur, w, None)
    /\ batch' = Set(batch, w, <<>>)
    /\ \/ /\ outcome' = Set(outcome, w, "no_config")
          /\ UNCHANGED <<pc, lastPoll>>
       \/ /\ lastPoll' = now
          /\ outcome' = Set(outcome, w, "running")
          /\ pc' = Set(pc, w, "fetch")
       \/ /\ outcome' = Set(outcome, w, "error_at_start")
          /\ UNCHANGED <<pc, lastPoll>>
    /\ UNCHANGED <<envVars, payments, storedTxs, payouts, lastSuccess, credits, commPaid, stored, dist, comm>>

\* config.last_successful_poll, or 24 hours back
time_threshold == IF lastSuccess # None THEN lastSuccess ELSE now - LookbackHours
\* rows of the query: dispensed transactions confirmed after the threshold
all_transactions == {t \in TxIds : ledger[t] # None /\ ledger[t] > time_threshold}
\* variant: no payment is taken as processed
processed_transaction_ids_none == {}
processed_transaction_ids == {payments[i].tx : i \in DOMAIN payments}
\* ORDER BY confirmed_at DESC: the orders the query can return a set in
OrderedDesc(S) ==
    {q \in [1..Cardinality(S) -> S] :
        /\ \A i, j \in DOMAIN q : i # j => q[i] # q[j]
        /\ \A i, j \in DOMAIN q : i < j => ledger[q[i]] >= ledger[q[j]]}

\* variant: a failed query ends the cycle in the handler of poll_and_process
fetch_new_transactions_propagate(w) ==
    /\ pc[w] = "fetch"
    /\ \E ok \in BOOLEAN :
         IF ok
         THEN /\ fetched' = Set(fetched, w, all_transactions \ processed_transaction_ids)
              /\ \E q \in OrderedDesc(all_transactions \ processed_transaction_ids) :
                     batch' = Set(batch, w, q)
              /\ pc' = Set(pc, w, "next")
              /\ UNCHANGED outcome
         ELSE /\ outcome' = Set(outcome, w, "error_at_start")
              /\ pc' = Set(pc, w, "idle")
              /\ UNCHANGED <<fetched, batch>>
    /\ UNCHANGED <<envVars, dbVars, countVars, cur, stored, dist, comm, trace,
                   result, cycStart, succAtStart>>

\* fetch_new_transactions; a failed query or a failed read of the payment
\* table gives the empty list
fetch_new_transactions(w) ==
    /\ pc[w] = "fetch"
    /\ \E ok \in BOOLEAN :
         LET new == IF ok THEN all_transactions \ processed_transaction_ids ELSE {}
         IN  /\ fetched' = Set(fetched, w, new)
             /\ \E q \in OrderedDesc(new) : batch' = Set(batch, w, q)
    /\ pc' = Set(pc, w, "next")
    /\ UNCHANGED <<envVars, dbVars, countVars, cur, stored, dist, comm, trace,
                   result, cycStart, succAtStart, outcome>>

\* variant: the loop is left when a transaction has failed
poll_and_process_next_abort(w) ==
    /\ pc[w] = "next"
    /\ LET stop == /\ cur[w] # None
                   /\ cur[w] \in DOMAIN result[w]
                   /\ result[w][cur[w]] \in {"error", "credit_failed"}
       IN  IF batch[w] # <<>> /\ ~stop
           THEN /\ cur' = Set(cur, w, Head(batch[w]))
                /\ batch' = Set(batch, w, Tail(batch[w]))
                /\ trace' = Set(trace, w, <<>>)
                /\ stored' = Set(stored, w, None)
                /\ dist' = Set(dist, w, <<>>)
                /\ comm' = Set(comm, w, 0)
                /\ pc' = Set(pc, w, "gate")
           ELSE /\ pc' = Set(pc, w, IF outcome[w] = "direct" THEN "idle" ELSE "finish")
                /\ cur' = Set(cur, w, None)
                /\ trace' = Set(trace, w, <<>>)
                /\ stored' = Set(stored, w, None)
                /\ dist' = Set(dist, w, <<>>)
                /\ comm' = Set(comm, w, 0)
                /\ batch' = Set(batch, w, <<>>)
    /\ UNCHANGED <<envVars, dbVars, countVars, result, cycleVars>>

\* head of the loop "for transaction in new_transactions"; a direct call of
\* process_transaction returns to its caller instead
poll_and_process_next(w) ==
    /\ pc[w] = "next"
    /\ IF batch[w] # <<>>
       THEN /\ cur' = Set(cur, w, Head(batch[w]))
            /\ batch' = Set(batch, w, Tail(batch[w]))
            /\ trace' = Set(trace, w, <<>>)
            /\ stored' = Set(stored, w, None)
            /\ dist' = Set(dist, w, <<>>)
            /\ comm' = Set(comm, w, 0)
            /\ pc' = Set(pc, w, "gate")
       ELSE /\ pc' = Set(pc, w, IF outcome[w] = "direct" THEN "idle" ELSE "finish")
            /\ cur' = Set(cur, w, None)
            /\ trace' = Set(trace, w, <<>>)
            /\ stored' = Set(stored, w, None)
            /\ dist' = Set(dist, w, <<>>)
            /\ comm' = Set(comm, w, 0)
            /\ UNCHANGED batch
    /\ UNCHANGED <<envVars, dbVars, countVars, result, cycleVars>>

\* process_transaction called by another caller than the poll loop
process_transaction_direct(w, t) ==
    /\ pc[w] = "idle"
    /\ calls < MaxCalls
    /\ ledger[t] # None
    /\ calls' = calls + 1
    /\ UNCHANGED constVars
    /\ cur' = Set(cur, w, t)
    /\ batch' = Set(batch, w, <<>>)
    /\ trace' = Set(trace, w, <<>>)
    /\ result' = Set(result, w, <<>>)
    /\ fetched' = Set(fetched, w, {})
    /\ stored' = Set(stored, w, None)
    /\ dist' = Set(dist, w, <<>>)
    /\ comm' = Set(comm, w, 0)
    /\ outcome' = Set(outcome, w, "direct")
    /\ cycStart' = Set(cycStart, w, None)
    /\ succAtStart' = Set(succAtStart, w, None)
    /\ pc' = Set(pc, w, "gate")
    /\ UNCHANGED <<envVars, dbVars>>

\* variant: the StoredTransaction is created before the wallet is credited
StepAfter_store_first(step) ==
    CASE step = "gate"       -> "store"
      [] step = "store"      -> "credit"
      [] step = "credit"     -> "calculate"
      [] step = "calculate"  -> "distribute"
      [] step = "distribute" -> "commission"
      [] step = "commission" -> "stats"

\* the order of the steps of process_transaction
StepAfter(step) ==
    CASE step = "gate"       -> "credit"
      [] step = "credit"     -> "store"
      [] step = "store"      -> "calculate"
      [] step = "calculate"  -> "distribute"
      [] step = "distribute" -> "commission"
      [] step = "commission" -> "stats"

\* variant: the check for existing payments is not made
process_transaction_gate_open(w) ==
    /\ pc[w] = "gate"
    /\ pc' = Set(pc, w, StepAfter("gate"))
    /\ UNCHANGED <<envVars, dbVars, countVars, batch, cur, stored, dist, comm,
                   trace, result, cycleVars>>

\* the idempotency gate; an exception of the lookup ends the transaction in
\* the handler of process_transaction
process_transaction_gate(w) ==
    /\ pc[w] = "gate"
    /\ \/ /\ Ended(w, "error")
          /\ pc' = Set(pc, w, "next")
          /\ UNCHANGED trace
       \/ IF existing_payments(cur[w]) # {}
          THEN /\ Ended(w, "skipped")
               /\ trace' = Set(trace, w, <<"skip">>)
               /\ pc' = Set(pc, w, "next")
          ELSE /\ pc' = Set(pc, w, StepAfter("gate"))
               /\ UNCHANGED <<trace, result>>
    /\ UNCHANGED <<envVars, dbVars, countVars, batch, cur, stored, dist, comm,
                   cycleVars>>

\* variant: a failed credit does not end the transaction
credit_source_wallet_continue(w) ==
    /\ pc[w] = "credit"
    /\ \E ok \in BOOLEAN :
         IF ok
         THEN /\ credits' = [credits EXCEPT ![cur[w]] = @ + 1]
              /\ trace' = Set(trace, w, Append(trace[w], "credit"))
              /\ pc' = Set(pc, w, StepAfter("credit"))
              /\ UNCHANGED result
         ELSE /\ trace' = Set(trace, w, Append(trace[w], "credit_failed"))
              /\ pc' = Set(pc, w, StepAfter("credit"))
              /\ UNCHANGED <<credits, result>>
    /\ UNCHANGED <<envVars, payments, storedTxs, payouts, lastPoll, lastSuccess,
                   commPaid, countVars, batch, cur, stored,
                   dist, comm, cycleVars>>

\* credit_source_wallet and the return when it fails: no source wallet is
\* configured, the wallet is not found, or the balance update raises
credit_source_wallet(w) ==
    /\ pc[w] = "credit"
    /\ \E ok \in BOOLEAN :
         IF ok
         THEN /\ credits' = [credits EXCEPT ![cur[w]] = @ + 1]
              /\ trace' = Set(trace, w, Append(trace[w], "credit"))
              /\ pc' = Set(pc, w, StepAfter("credit"))
              /\ UNCHANGED result
         ELSE /\ trace' = Set(trace, w, Append(trace[w], "credit_failed"))
              /\ Ended(w, "credit_failed")
              /\ pc' = Set(pc, w, "next")
              /\ UNCHANGED credits
    /\ UNCHANGED <<envVars, payments, storedTxs, payouts, lastPoll, lastSuccess,
                   commPaid, countVars, batch, cur, stored,
                   dist, comm, cycleVars>>

\* variant: the balances are read as of the wall clock
BalancesAsOf_now(t) == [c \in FlowClients |-> remaining_balance(c, now)]

\* balances of the flow-mode clients as of the transaction time
BalancesAsOf(t) == [c \in FlowClients |-> remaining_balance(c, ledger[t])]

\* The arithmetic is done once, when the model starts, for the transactions
\* of the ledger and every balance the deposits allow; the results are
\* carried in the state (table).  A balance that is not positive excludes
\* the client whatever its value, and is looked up as 0.
TableBalances == {b \in [FlowClients -> 0..6] : \A c \in FlowClients : b[c] <= DepositAmount(c)}
ArithmeticTable ==
    [dist |-> [t \in TxIds, b \in TableBalances |->
                  calculate_distribution_amounts(TxData(t), FlowClients, b)] @@ <<>>,
     dec  |-> [t \in TxIds |->
                  Decompose(TxData(t).crypto, TxData(t).pm, TxData(t).discount)] @@ <<>>]
Distributions(t, b) ==
    table.dist[t, [c \in FlowClients |-> IF b[c] > 0 THEN b[c] ELSE 0]]
Decomposed(t) == table.dec[t]

\* The name transaction_time is read in store_lamassu_transaction and in
\* distribute_to_clients, and neither function binds it: building the
\* record raises NameError, which the enclosing handler catches.
store_binds_transaction_time      == FALSE
distribute_binds_transaction_time == FALSE

\* store_lamassu_transaction: the StoredTransaction row, or None
store_lamassu_transaction(w) ==
    /\ pc[w] = "store"
    /\ trace' = Set(trace, w, Append(trace[w], "store"))
    /\ IF store_binds_transaction_time
       THEN /\ storedTxs' = Append(storedTxs,
                   [tx         |-> cur[w],
                    base       |-> Decomposed(cur[w]).base,
                    commission |-> Decomposed(cur[w]).commission,
                    clients |-> 0, distributed |-> 0])
            /\ stored' = Set(stored, w, Len(storedTxs) + 1)
       ELSE /\ stored' = Set(stored, w, None)
            /\ UNCHANGED storedTxs
    /\ pc' = Set(pc, w, StepAfter("store"))
    /\ UNCHANGED <<envVars, payments, payouts, lastPoll, lastSuccess, credits, commPaid, countVars, batch, cur, dist, comm,
                   result, cycleVars>>

\* variant: process_transaction goes on with an empty mapping
process_transaction_calculate_continue(w) ==
    /\ pc[w] = "calculate"
    /\ trace' = Set(trace, w, Append(trace[w], "calculate"))
    /\ \E raises \in BOOLEAN :
         LET d == IF raises THEN <<>>
                  ELSE Distributions(cur[w], BalancesAsOf(cur[w]))
         IN  /\ dist' = Set(dist, w, d)
             /\ comm' = Set(comm, w, Decomposed(cur[w]).commission)
             /\ pc' = Set(pc, w, StepAfter("calculate"))
             /\ UNCHANGED result
    /\ UNCHANGED <<envVars, dbVars, countVars, batch, cur, stored, cycleVars>>

\* calculate_distribution_amounts, the return on an empty mapping, and the
\* commission amount process_transaction computes for the transfer
process_transaction_calculate(w) ==
    /\ pc[w] = "calculate"
    /\ trace' = Set(trace, w, Append(trace[w], "calculate"))
    /\ \E raises \in BOOLEAN :
         LET d == IF raises THEN <<>>
                  ELSE Distributions(cur[w], BalancesAsOf(cur[w]))
         IN  IF d = <<>>
             THEN /\ Ended(w, "no_distribution")
                  /\ pc' = Set(pc, w, "next")
                  /\ UNCHANGED <<dist, comm>>
             ELSE /\ dist' = Set(dist, w, d)
                  /\ comm' = Set(comm, w, Decomposed(cur[w]).commission)
                  /\ pc' = Set(pc, w, StepAfter("calculate"))
                  /\ UNCHANGED result
    /\ UNCHANGED <<envVars, dbVars, countVars, batch, cur, stored, cycleVars>>

\* What one client's iteration of distribute_to_clients can end in:
\* payout made and status recorded, invoice created but not paid for want
\* of a source wallet (reported as success), payout failed (pay_invoice
\* raises, or the client's wallet does not exist), or payout made and the
\* status update lost (update_payment_status swallows its exception)
PayOutcomes == {"paid", "not_sent", "pay_failed", "status_lost"}
\* the outcomes of the clients of a mapping; an iteration that raises at
\* the record has none of them
PossibleOutcomes(d) ==
    IF distribute_binds_transaction_time THEN [DOMAIN d -> PayOutcomes]
    ELSE [DOMAIN d -> {"raised"}]
PaymentStatus(c, how) ==
    IF ~ClientHasWallet(c) \/ how = "pay_failed" THEN "failed"
    ELSE IF how = "status_lost" THEN "pending" ELSE "confirmed"

\* variant: the record is built, and the status is written as a second row
DistributionRows_two_rows(t, d, c, how) ==
    <<[tx |-> t, client |-> c, sats |-> d[c].sats, fiat |-> d[c].fiat,
       status |-> "pending", time |-> ledger[t]],
      [tx |-> t, client |-> c, sats |-> d[c].sats, fiat |-> d[c].fiat,
       status |-> PaymentStatus(c, how), time |-> ledger[t]]>>

\* rows one client's iteration adds to the payment table
DistributionRows(t, d, c, how) ==
    IF distribute_binds_transaction_time
    THEN <<[tx |-> t, client |-> c, sats |-> d[c].sats, fiat |-> d[c].fiat,
            status |-> PaymentStatus(c, how), time |-> ledger[t]]>>
    ELSE <<>>
\* variant: the transfer does not wait for the payment row
DistributionTransfers_unrecorded(t, d, c, how) ==
    IF ClientHasWallet(c)
    THEN <<[tx |-> t, client |-> c, sats |-> d[c].sats]>>
    ELSE <<>>
\* transfers one client's iteration makes (send_dca_payment)
DistributionTransfers(t, d, c, how) ==
    IF distribute_binds_transaction_time /\ ClientHasWallet(c)
       /\ how \in {"paid", "status_lost"}
    THEN <<[tx |-> t, client |-> c, sats |-> d[c].sats]>>
    ELSE <<>>

RECURSIVE AllRows(_, _, _, _)
AllRows(t, d, cs, how) ==
    IF cs = {} THEN <<>>
    ELSE LET c == CHOOSE x \in cs : TRUE
         IN  DistributionRows(t, d, c, how[c]) \o AllRows(t, d, cs \ {c}, how)
RECURSIVE AllTransfers(_, _, _, _)
AllTransfers(t, d, cs, how) ==
    IF cs = {} THEN <<>>
    ELSE LET c == CHOOSE x \in cs : TRUE
         IN  DistributionTransfers(t, d, c, how[c]) \o AllTransfers(t, d, cs \ {c}, how)

\* distribute_to_clients: every client of the mapping in turn
distribute_to_clients(w) ==
    /\ pc[w] = "distribute"
    /\ trace' = Set(trace, w, Append(trace[w], "distribute"))
    /\ \E how \in PossibleOutcomes(dist[w]) :
         /\ payments' = payments \o AllRows(cur[w], dist[w], DOMAIN dist[w], how)
         /\ payouts' = payouts \o AllTransfers(cur[w], dist[w], DOMAIN dist[w], how)
    /\ pc' = Set(pc, w, StepAfter("distribute"))
    /\ UNCHANGED <<envVars, storedTxs, lastPoll, lastSuccess, credits, commPaid, countVars, batch, cur, stored, dist, comm,
                   result, cycleVars>>

\* variant: the next transaction is taken up as soon as the commission
\* step of the one in hand is over, its last step left to run on its own
send_commission_payment_handoff(w) ==
    /\ pc[w] = "commission"
    /\ UNCHANGED commPaid
    /\ IF batch[w] # <<>>
       THEN /\ cur' = Set(cur, w, Head(batch[w]))
            /\ batch' = Set(batch, w, Tail(batch[w]))
            /\ trace' = Set(trace, w, <<>>)
            /\ pc' = Set(pc, w, "gate")
       ELSE /\ pc' = Set(pc, w, StepAfter("commission"))
            /\ UNCHANGED <<cur, batch, trace>>
    /\ UNCHANGED <<envVars, payments, storedTxs, payouts, lastPoll, lastSuccess,
                   credits, countVars, stored,
                   dist, comm, result, cycleVars>>

\* variant: without a commission wallet the commission is paid all the same
commission_payment_no_wallet(amount, commission_wallet_id, source_wallet_id, invoice_ok, pay_ok) ==
    IF ~source_wallet_id THEN [issued |-> FALSE, transfer |-> FALSE, amount |-> 0]
    ELSE IF ~invoice_ok THEN [issued |-> TRUE, transfer |-> FALSE, amount |-> 0]
    ELSE [issued |-> TRUE, transfer |-> pay_ok,
          amount |-> IF pay_ok THEN amount ELSE 0]

\* The body of send_commission_payment(transaction, commission_amount_sats):
\* whether an invoice was asked for in the commission wallet (issued),
\* whether it was paid from the source wallet (transfer), and the amount
commission_payment(amount, commission_wallet_id, source_wallet_id, invoice_ok, pay_ok) ==
    IF ~commission_wallet_id
    THEN [issued |-> FALSE, transfer |-> FALSE, amount |-> 0]
    ELSE IF ~source_wallet_id
    THEN [issued |-> FALSE, transfer |-> FALSE, amount |-> 0]
    ELSE IF ~invoice_ok
    THEN [issued |-> TRUE, transfer |-> FALSE, amount |-> 0]
    ELSE [issued |-> TRUE, transfer |-> pay_ok,
          amount |-> IF pay_ok THEN amount ELSE 0]

\* send_commission_payment, called if the commission is positive: the
\* transfer is made, or there is no commission wallet, or no source wallet,
\* or the invoice fails
send_commission_payment(w) ==
    /\ pc[w] = "commission"
    /\ IF comm[w] > 0
       THEN /\ trace' = Set(trace, w, Append(trace[w], "commission"))
            /\ \E sent \in {commission_payment(comm[w], commission_wallet_id,
                                                source_wallet_id, invoice_ok,
                                                pay_ok).transfer :
                              commission_wallet_id, source_wallet_id,
                              invoice_ok, pay_ok \in BOOLEAN} :
                 IF sent
                 THEN commPaid' = [commPaid EXCEPT ![cur[w]] = @ + 1]
                 ELSE UNCHANGED commPaid
       ELSE UNCHANGED <<trace, commPaid>>
    /\ pc' = Set(pc, w, StepAfter("commission"))
    /\ UNCHANGED <<envVars, payments, storedTxs, payouts, lastPoll, lastSuccess,
                   credits, countVars, batch, cur, stored,
                   dist, comm, result, cycleVars>>

\* update_lamassu_transaction_distribution_stats, called if a row was stored
update_distribution_stats(w) ==
    /\ pc[w] = "stats"
    /\ IF stored[w] # None
       THEN /\ trace' = Set(trace, w, Append(trace[w], "stats"))
            /\ storedTxs' = [storedTxs EXCEPT ![stored[w]] =
                   [@ EXCEPT !.clients = Cardinality(DOMAIN dist[w]),
                             !.distributed = SumSats(dist[w], DOMAIN dist[w])]]
       ELSE UNCHANGED <<trace, storedTxs>>
    /\ Ended(w, "done")
    /\ pc' = Set(pc, w, "next")
    /\ UNCHANGED <<envVars, payments, payouts, lastPoll, lastSuccess, credits, commPaid, countVars, batch, cur, stored,
                   dist, comm, cycleVars>>

\* variant: the handler of poll_and_process records the success time too
poll_and_process_end_always(w) ==
    /\ pc[w] = "finish"
    /\ lastSuccess' = now
    /\ \/ outcome' = Set(outcome, w, "success")
       \/ outcome' = Set(outcome, w, "error_at_end")
    /\ pc' = Set(pc, w, "idle")
    /\ UNCHANGED <<envVars, payments, storedTxs, payouts, lastPoll, credits, commPaid, countVars, batch, cur, stored,
                   dist, comm, trace, result, fetched, cycStart, succAtStart>>

\* end of poll_and_process: update_poll_success_time, or its exception
poll_and_process_end(w) ==
    /\ pc[w] = "finish"
    /\ \/ /\ lastSuccess' = now
          /\ outcome' = Set(outcome, w, "success")
       \/ /\ outcome' = Set(outcome, w, "error_at_end")
          /\ UNCHANGED lastSuccess
    /\ pc' = Set(pc, w, "idle")
    /\ UNCHANGED <<envVars, payments, storedTxs, payouts, lastPoll, credits, commPaid, countVars, batch, cur, stored,
                   dist, comm, trace, result, fetched, cycStart, succAtStart>>

(* The environment.  A cycle reads the clock and the ledger when it starts *)
(* and fetches, and the clock again when it records its success; the      *)
(* environment's steps are taken before those two points, as long as a    *)
(* call is still to be made or to be finished.                            *)
AtReadPoint ==
    /\ \A w \in Workers : pc[w] \in {"idle", "finish"}
    /\ calls < MaxCalls \/ \E w \in Workers : pc[w] = "finish"
Tick ==
    /\ AtReadPoint
    /\ now < MaxTime
    /\ now' = now + 1
    /\ UNCHANGED <<ledger, deposits, dbVars, countVars, localVars, cycleVars>>
\* a cash-in is dispensed and confirmed at the machine
AtmConfirms(t) ==
    /\ AtReadPoint
    /\ ledger[t] = None
    /\ ledger' = [ledger EXCEPT ![t] = now]
    /\ UNCHANGED <<now, deposits, dbVars, countVars, localVars, cycleVars>>
\* the deposit of client C is confirmed
DepositConfirmed ==
    /\ AtReadPoint
    /\ deposits["C"] = None
    /\ deposits' = [deposits EXCEPT !["C"] = now]
    /\ UNCHANGED <<now, ledger, dbVars, countVars, localVars, cycleVars>>

\* An earlier run has left one confirmed payment to A for each transaction
\* of paid
SeedPayments(paid) ==
    LET q == CHOOSE r \in [1..Cardinality(paid) -> paid] :
                 \A i, j \in DOMAIN r : i < j => r[i] < r[j]
    IN  [i \in DOMAIN q |-> [tx |-> q[i], client |-> "A", sats |-> 1, fiat |-> 1,
                             status |-> "confirmed", time |-> 0]]

CalcIdle ==
    /\ calcTx = [crypto |-> 0, fiat |-> 0, pm |-> 0, discount |-> 0]
    /\ calcBal = [c \in CalcClients |-> 0]
    /\ calcDec = [base |-> 0, commission |-> 0]
    /\ calcDist = <<>>
    /\ calcPc = "off"

PipeScenario ==
    /\ ledger \in [TxIds -> {None, 0}]
    /\ \E funded \in BOOLEAN :
         /\ deposits = [c \in FlowClients |-> IF funded /\ c # "C" THEN 0 ELSE None]
         /\ \E paid \in SUBSET {t \in TxIds : ledger[t] # None} :
              /\ paid # {} => funded
              /\ payments = SeedPayments(paid)
PipeOff ==
    /\ ledger = [t \in TxIds |-> None]
    /\ deposits = [c \in FlowClients |-> None]
    /\ payments = <<>>
PipeStart ==
    /\ now = 0
    /\ storedTxs = <<>>
    /\ payouts = <<>>
    /\ lastPoll = None
    /\ lastSuccess = None
    /\ credits = [t \in TxIds |-> 0]
    /\ commPaid = [t \in TxIds |-> 0]
    /\ calls = 0
    /\ pc = [w \in Workers |-> "idle"]
    /\ batch = [w \in Workers |-> <<>>]
    /\ cur = [w \in Workers |-> None]
    /\ stored = [w \in Workers |-> None]
    /\ dist = [w \in Workers |-> <<>>]
    /\ comm = [w \in Workers |-> 0]
    /\ trace = [w \in Workers |-> <<>>]
    /\ result = [w \in Workers |-> <<>>]
    /\ fetched = [w \in Workers |-> {}]
    /\ cycStart = [w \in Workers |-> None]
    /\ succAtStart = [w \in Workers |-> None]
    /\ outcome = [w \in Workers |-> "none"]

---------------------------------------------------------------------------
(* The SSH tunnel.  The channel is the handle and the two paths the        *)
(* processor holds, and what they refer to: the subprocess and the files.  *)
(* A subprocess or a file the processor has let go of without ending or    *)
(* deleting it is kept as procOrphan, keyLeft, configLeft.                 *)

Channel ==
    [ssh_process     |-> ssh_process,     alive       |-> procAlive,
     orphan          |-> procOrphan,
     ssh_key_path    |-> ssh_key_path,    key_file    |-> keyFile,
     key_left        |-> keyLeft,
     ssh_config_path |-> ssh_config_path, config_file |-> configFile,
     config_left     |-> configLeft]
SetChannel(r) ==
    /\ ssh_process' = r.ssh_process
    /\ procAlive' = r.alive
    /\ procOrphan' = r.orphan
    /\ ssh_key_path' = r.ssh_key_path
    /\ keyFile' = r.key_file
    /\ keyLeft' = r.key_left
    /\ ssh_config_path' = r.ssh_config_path
    /\ configFile' = r.config_file
    /\ configLeft' = r.config_left

\* What a call of close_ssh_tunnel can meet: terminate() and wait(5) end
\* the subprocess, or they raise (the wait times out) and kill() ends it,
\* or kill() raises too; os.unlink removes a file or raises
CloseChoices == [term : {"exited", "killed", "kill_failed"},
                 key : BOOLEAN, config : BOOLEAN]
\* the choices that matter on the channel r: a subprocess that has exited
\* is not waited for, and a file that is not there cannot be removed
CloseChoicesOn(r) ==
    {ch \in CloseChoices :
        /\ (~(r.ssh_process /\ r.alive)) => ch.term = "exited"
        /\ (~(r.ssh_key_path /\ r.key_file)) => ch.key
        /\ (~(r.ssh_config_path /\ r.config_file)) => ch.config}

\* variant: an exception of the key file's deletion leaves the function
close_ssh_tunnel_steps_abort(r, ch) ==
    LET term == IF r.alive THEN ch.term ELSE "exited"
        p == IF r.ssh_process
             THEN [r |-> [r EXCEPT !.ssh_process = FALSE, !.alive = FALSE,
                                   !.orphan = r.orphan \/ term = "kill_failed"],
                   attempts |-> IF term = "exited" THEN {"terminate"}
                                ELSE {"terminate", "kill"},
                   failed |-> IF term = "exited" THEN {}
                              ELSE IF term = "killed" THEN {"terminate"}
                              ELSE {"terminate", "kill"}]
             ELSE [r |-> r, attempts |-> {}, failed |-> {}]
        keyRaises == p.r.ssh_key_path /\ ~(p.r.key_file /\ ch.key)
        k == IF p.r.ssh_key_path /\ ~keyRaises
             THEN [r |-> [p.r EXCEPT !.ssh_key_path = FALSE, !.key_file = FALSE],
                   attempts |-> p.attempts \cup {"unlink_key"},
                   failed |-> p.failed]
             ELSE IF keyRaises
             THEN [r |-> p.r,
                   attempts |-> p.attempts \cup {"unlink_key"},
                   failed |-> p.failed \cup {"unlink_key"}]
             ELSE p
    IN  IF keyRaises \/ ~k.r.ssh_config_path THEN k
        ELSE [r |-> [k.r EXCEPT !.ssh_config_path = FALSE, !.config_file = FALSE,
                                !.config_left = k.r.config_left
                                                \/ (k.r.config_file /\ ~ch.config)],
              attempts |-> k.attempts \cup {"unlink_config"},
              failed |-> k.failed \cup (IF k.r.config_file /\ ch.config THEN {}
                                        ELSE {"unlink_config"})]

\* variant: the files are deleted whether or not a path is held
close_ssh_tunnel_steps_unguarded(r, ch) ==
    [r |-> [r EXCEPT !.ssh_process = FALSE, !.alive = FALSE,
                     !.ssh_key_path = FALSE, !.key_file = FALSE,
                     !.ssh_config_path = FALSE, !.config_file = FALSE],
     attempts |-> (IF r.ssh_process THEN {"terminate"} ELSE {})
                      \cup {"unlink_key", "unlink_config"},
     failed |-> (IF r.key_file THEN {} ELSE {"unlink_key"})
                    \cup (IF r.config_file THEN {} ELSE {"unlink_config"})]

\* close_ssh_tunnel on the channel r: the channel it leaves, the steps it
\* attempted and the steps that raised.  Each of the three parts runs if
\* its field is set, catches its exception and clears its field in finally.
close_ssh_tunnel_steps(r, ch) ==
    LET \* terminate() on a subprocess that has exited does nothing
        term == IF r.alive THEN ch.term ELSE "exited"
        p == IF r.ssh_process
             THEN [r |-> [r EXCEPT !.ssh_process = FALSE, !.alive = FALSE,
                                   !.orphan = r.orphan \/ term = "kill_failed"],
                   attempts |-> IF term = "exited" THEN {"terminate"}
                                ELSE {"terminate", "kill"},
                   failed |-> IF term = "exited" THEN {}
                              ELSE IF term = "killed" THEN {"terminate"}
                              ELSE {"terminate", "kill"}]
             ELSE [r |-> r, attempts |-> {}, failed |-> {}]
        k == IF p.r.ssh_key_path
             THEN [r |-> [p.r EXCEPT !.ssh_key_path = FALSE, !.key_file = FALSE,
                                     !.key_left = p.r.key_left
                                                  \/ (p.r.key_file /\ ~ch.key)],
                   attempts |-> p.attempts \cup {"unlink_key"},
                   failed |-> p.failed \cup (IF p.r.key_file /\ ch.key THEN {}
                                             ELSE {"unlink_key"})]
             ELSE p
    IN  IF k.r.ssh_config_path
        THEN [r |-> [k.r EXCEPT !.ssh_config_path = FALSE, !.config_file = FALSE,
                                !.config_left = k.r.config_left
                                                \/ (k.r.config_file /\ ~ch.config)],
              attempts |-> k.attempts \cup {"unlink_config"},
              failed |-> k.failed \cup (IF k.r.config_file /\ ch.config THEN {}
                                        ELSE {"unlink_config"})]
        ELSE k

\* db_config: ssh_password set, else ssh_private_key set, else neither
AuthModes == {"password", "key", "none"}
\* subprocess.Popen: FileNotFoundError, or the subprocess has exited after
\* the two seconds, or it runs
PopenOutcomes == {"command_not_found", "exited", "established"}
\* the ways through _setup_subprocess_ssh_tunnel for each authentication
SetupPaths(auth) ==
    CASE auth = "password" -> {"helper_missing"} \cup PopenOutcomes
      [] auth = "key"      -> {"config_create_failed", "write_failed"} \cup PopenOutcomes
      [] auth = "none"     -> {"no_credential"}

\* subprocess.Popen(ssh_cmd) and the check after the sleep, on the channel f
StartTunnel(f, how, written) ==
    CASE how = "command_not_found" ->
             [r |-> f, returned |-> "None", launched |-> FALSE,
              wrote |-> written, raised |-> FALSE]
      [] how = "exited" ->
             [r |-> [f EXCEPT !.ssh_process = TRUE, !.alive = FALSE,
                              !.orphan = f.orphan \/ (f.ssh_process /\ f.alive)],
              returned |-> "None", launched |-> TRUE,
              wrote |-> written, raised |-> FALSE]
      [] how = "established" ->
             [r |-> [f EXCEPT !.ssh_process = TRUE, !.alive = TRUE,
                              !.orphan = f.orphan \/ (f.ssh_process /\ f.alive)],
              returned |-> "tunnel_config", launched |-> TRUE,
              wrote |-> written, raised |-> FALSE]

\* variant: without the helper and without a credential the tunnel command
\* is started all the same
setup_subprocess_ssh_tunnel_unchecked(r, auth, how) ==
    IF how \in {"helper_missing", "no_credential"}
    THEN StartTunnel(r, "exited", FALSE)
    ELSE LET f == [r EXCEPT !.ssh_key_path = TRUE, !.key_file = TRUE,
                            !.ssh_config_path = TRUE, !.config_file = TRUE]
         IN  IF how \in PopenOutcomes
             THEN StartTunnel(IF auth = "key" THEN f ELSE r, how, auth = "key")
             ELSE [r |-> r, returned |-> "None", launched |-> FALSE,
                   wrote |-> how = "write_failed", raised |-> TRUE]

\* _setup_subprocess_ssh_tunnel on the channel r: the channel it leaves,
\* what it returns, and whether it raised instead of returning
setup_subprocess_ssh_tunnel(r, auth, how) ==
    CASE how = "helper_missing" ->
             \* "which sshpass" fails: return None
             [r |-> r, returned |-> "None", launched |-> FALSE,
              wrote |-> FALSE, raised |-> FALSE]
      [] how = "no_credential" ->
             [r |-> r, returned |-> "None", launched |-> FALSE,
              wrote |-> FALSE, raised |-> FALSE]
      [] how = "config_create_failed" ->
             \* the second mkstemp raises outside the try: the key file of
             \* the first stays
             [r |-> [r EXCEPT !.key_left = TRUE], returned |-> "None",
              launched |-> FALSE, wrote |-> FALSE, raised |-> TRUE]
      [] how = "write_failed" ->
             \* the handler unlinks both files and raises again
             [r |-> r, returned |-> "None", launched |-> FALSE,
              wrote |-> TRUE, raised |-> TRUE]
      [] OTHER ->
             LET f == IF auth = "key"
                      THEN [r EXCEPT !.ssh_key_path = TRUE, !.key_file = TRUE,
                                     !.key_left = r.key_left \/ r.key_file,
                                     !.ssh_config_path = TRUE, !.config_file = TRUE,
                                     !.config_left = r.config_left \/ r.config_file]
                      ELSE r
             IN  StartTunnel(f, how, auth = "key")

\* setup_ssh_tunnel(db_config) on the processor
setup_ssh_tunnel_call(use_ssh_tunnel) ==
    /\ \E auth \in AuthModes :
       \E how \in SetupPaths(auth), ch1 \in CloseChoicesOn(Channel) :
         LET closed == close_ssh_tunnel_steps(Channel, ch1).r
             s == setup_subprocess_ssh_tunnel(closed, auth, how)
         IN  IF ~use_ssh_tunnel
             THEN /\ UNCHANGED channelVars
                  /\ returned' = "db_config"
                  /\ path' = "direct"
                  /\ launched' = FALSE
                  /\ wrote' = FALSE
             ELSE IF ~SSH_AVAILABLE
             THEN /\ UNCHANGED channelVars
                  /\ returned' = "None"
                  /\ path' = "unavailable"
                  /\ launched' = FALSE
                  /\ wrote' = FALSE
             ELSE /\ \E ch2 \in CloseChoicesOn(s.r) :
                       SetChannel(IF s.raised
                                  THEN close_ssh_tunnel_steps(s.r, ch2).r
                                  ELSE s.r)
                  /\ returned' = s.returned
                  /\ path' = how
                  /\ launched' = s.launched
                  /\ wrote' = s.wrote
    /\ attempts' = {}
    /\ failed' = {}
    /\ prevOp' = lastOp
    /\ lastOp' = "setup"

\* setup_ssh_tunnel(db_config), called on its own
setup_ssh_tunnel ==
    /\ \E use_ssh_tunnel \in BOOLEAN : setup_ssh_tunnel_call(use_ssh_tunnel)
    /\ UNCHANGED <<SSH_AVAILABLE, calcVars, pipeVars, unitVars>>

\* close_ssh_tunnel()
close_ssh_tunnel ==
    /\ \E ch \in CloseChoicesOn(Channel) :
         LET c == close_ssh_tunnel_steps(Channel, ch)
         IN  /\ SetChannel(c.r)
             /\ attempts' = c.attempts
             /\ failed' = c.failed
    /\ prevOp' = lastOp
    /\ lastOp' = "close"
    /\ UNCHANGED <<SSH_AVAILABLE, setupVars, calcVars, pipeVars, unitVars>>

\* the tunnel subprocess ends on its own (the connection drops)
TunnelExits ==
    /\ ssh_process /\ procAlive
    /\ procAlive' = FALSE
    /\ attempts' = {}
    /\ failed' = {}
    /\ prevOp' = lastOp
    /\ lastOp' = "exit"
    /\ UNCHANGED <<SSH_AVAILABLE, ssh_process, ssh_key_path, ssh_config_path,
                   procOrphan, keyFile, keyLeft, configFile, configLeft,
                   setupVars, calcVars, pipeVars, unitVars>>

\* a temporary file is removed from outside the processor
TempFileRemoved ==
    /\ \/ /\ keyFile
          /\ keyFile' = FALSE
          /\ UNCHANGED configFile
       \/ /\ configFile
          /\ configFile' = FALSE
          /\ UNCHANGED keyFile
    /\ attempts' = {}
    /\ failed' = {}
    /\ prevOp' = lastOp
    /\ lastOp' = "removed"
    /\ UNCHANGED <<SSH_AVAILABLE, ssh_process, ssh_key_path, ssh_config_path,
                   procAlive, procOrphan, keyLeft, configLeft,
                   setupVars, calcVars, pipeVars, unitVars>>

\* variant: the invoice is paid although no source wallet is configured
dca_payment_settle(wallet, amount, invoice, admin_config, source_wallet_id, pay_ok) ==
    IF wallet # "found" \/ invoice = "raises"
    THEN [success |-> FALSE, invoice |-> 0, pay_invoice |-> FALSE]
    ELSE IF invoice = "none" \/ ~admin_config
    THEN [success |-> FALSE, invoice |-> IF invoice = "ok" THEN amount ELSE 0,
          pay_invoice |-> FALSE]
    ELSE [success |-> pay_ok, invoice |-> amount, pay_invoice |-> TRUE]

\* The body of send_dca_payment: wallet is what get_wallet answers ("found",
\* "missing", or "raises"), invoice what create_invoice answers ("ok",
\* "none" or "raises"). The result: the value returned, the amount of the
\* invoice created in the wallet of the client (0: none), and whether
\* pay_invoice was called. An exception ends in the handler at the end,
\* which returns False.
dca_payment(wallet, amount, invoice, admin_config, source_wallet_id, pay_ok) ==
    IF wallet # "found"
    THEN [success |-> FALSE, invoice |-> 0, pay_invoice |-> FALSE]
    ELSE IF invoice # "ok"
    THEN [success |-> FALSE, invoice |-> 0, pay_invoice |-> FALSE]
    ELSE IF ~admin_config
    THEN [success |-> FALSE, invoice |-> amount, pay_invoice |-> FALSE]
    ELSE IF ~source_wallet_id
    THEN [success |-> TRUE, invoice |-> amount, pay_invoice |-> FALSE]
    ELSE [success |-> pay_ok, invoice |-> amount, pay_invoice |-> TRUE]

\* amounts of the allocation handed to send_dca_payment
PayAmounts == {1, 2}
\* get_wallet: the wallet is there, or not, or the lookup raises
WalletAnswers(c) == IF ClientHasWallet(c) THEN {"found", "raises"} ELSE {"missing"}
PayInputs ==
    {i \in [client : FlowClients, wallet : {"found", "missing", "raises"},
            amount : PayAmounts, invoice : {"ok", "none", "raises"},
            admin_config : BOOLEAN, source_wallet_id : BOOLEAN, pay_ok : BOOLEAN] :
        i.wallet \in WalletAnswers(i.client)}
NoPayment == [success |-> FALSE, invoice |-> 0, pay_invoice |-> FALSE]

\* send_dca_payment(client, distribution, lamassu_transaction_id)
send_dca_payment ==
    /\ payPc = "call"
    /\ payOut' = dca_payment(payIn.wallet, payIn.amount, payIn.invoice,
                             payIn.admin_config, payIn.source_wallet_id,
                             payIn.pay_ok)
    /\ payPc' = "done"
    /\ UNCHANGED <<payIn, calcVars, pipeVars, tunnelVars, probeVars, errVars>>

PayOff ==
    /\ payPc = "off"
    /\ payIn = CHOOSE i \in PayInputs : TRUE
    /\ payOut = NoPayment

\* __init__: no handle and no path
TunnelNew ==
    /\ ssh_process = FALSE
    /\ ssh_key_path = FALSE
    /\ ssh_config_path = FALSE
    /\ procAlive = FALSE
    /\ procOrphan = FALSE
    /\ keyFile = FALSE
    /\ keyLeft = FALSE
    /\ configFile = FALSE
    /\ configLeft = FALSE
    /\ returned = "none"
    /\ path = "none"
    /\ launched = FALSE
    /\ wrote = FALSE
    /\ attempts = {}
    /\ failed = {}
    /\ lastOp = "none"
    /\ prevOp = "none"
TunnelOff == SSH_AVAILABLE = TRUE /\ TunnelNew

---------------------------------------------------------------------------
(* execute_ssh_query and test_connection_detailed.                         *)

\* What happens to the ssh command of execute_ssh_query: it prints rows, it
\* prints nothing (an empty result set), the configuration has no private
\* key, the login is refused, the host does not answer, psql is not found on
\* the host, or the table of the query does not exist
QueryCauses(query) ==
    {"rows", "no_key", "auth_failure", "unreachable", "command_not_found"}
        \cup (IF query \in {"count", "data"} THEN {"table_not_found"} ELSE {})
        \cup (IF query = "data" THEN {"empty"} ELSE {})

\* execute_ssh_query(db_config, query): the parsed rows, or [] without a
\* private key, on a return code other than 0, on an empty output and on
\* any exception
execute_ssh_query(cause) == IF cause = "rows" THEN "rows" ELSE "[]"

NoQuery == [query |-> "none", cause |-> "none", returned |-> "none"]
Query(query, cause) ==
    [query |-> query, cause |-> cause, returned |-> execute_ssh_query(cause)]

\* the result dictionary at the start of test_connection_detailed
ProbeStart ==
    [success |-> FALSE, steps |-> <<>>, ssh_tunnel_used |-> FALSE,
     ssh_tunnel_success |-> FALSE, database_connection_success |-> FALSE,
     config_id |-> FALSE]

Logged(r, entries) == [r EXCEPT !.steps = @ \o entries]

\* step 1: get_db_config
test_connection_config ==
    /\ probePc \in {"idle", "returned"}
    /\ \E found \in BOOLEAN :
         IF found
         THEN /\ probe' = [Logged(ProbeStart, <<"config?", "config_ok">>)
                              EXCEPT !.config_id = TRUE]
              /\ probePc' = "tunnel"
         ELSE /\ probe' = Logged(ProbeStart, <<"config?", "config_missing">>)
              /\ probePc' = "returned"
    /\ UNCHANGED <<lastQuery, test_connection_success, tunnelVars, calcVars,
                   pipeVars, payVars, errVars>>

\* step 2: the tunnel, if the configuration asks for one
test_connection_tunnel ==
    /\ probePc = "tunnel"
    /\ \E use_ssh_tunnel \in BOOLEAN :
         IF ~use_ssh_tunnel
         THEN /\ probe' = Logged(probe, <<"direct">>)
              /\ probePc' = "query"
              /\ UNCHANGED tunnelVars
         ELSE IF ~SSH_AVAILABLE
         THEN /\ probe' = [Logged(probe, <<"tunnel?", "ssh_missing">>)
                              EXCEPT !.ssh_tunnel_used = TRUE]
              /\ probePc' = "returned"
              /\ UNCHANGED tunnelVars
         ELSE /\ setup_ssh_tunnel_call(TRUE)
              /\ UNCHANGED SSH_AVAILABLE
              /\ IF returned' = "None"
                 THEN /\ probe' = [Logged(probe, <<"tunnel?", "tunnel_failed">>)
                                      EXCEPT !.ssh_tunnel_used = TRUE]
                      /\ probePc' = "returned"
                 ELSE /\ probe' = [Logged(probe, <<"tunnel?", "tunnel_ok">>)
                                      EXCEPT !.ssh_tunnel_used = TRUE,
                                             !.ssh_tunnel_success = TRUE]
                      /\ probePc' = "query"
    /\ UNCHANGED <<lastQuery, test_connection_success, calcVars, pipeVars,
                   payVars, errVars>>

\* variant: after a failed SELECT 1 the test goes on with the table
test_connection_query_continue ==
    /\ probePc = "query"
    /\ \E cause \in QueryCauses("test") :
         /\ lastQuery' = Query("test", cause)
         /\ IF execute_ssh_query(cause) = "rows"
            THEN probe' = [Logged(probe, <<"query?", "query_ok">>)
                              EXCEPT !.database_connection_success = TRUE]
            ELSE probe' = Logged(probe, <<"query?", "query_failed">>)
         /\ probePc' = "table"
    /\ UNCHANGED <<test_connection_success, tunnelVars, calcVars, pipeVars,
                   payVars, errVars>>

\* step 3: SELECT 1
test_connection_query ==
    /\ probePc = "query"
    /\ \E cause \in QueryCauses("test") :
         /\ lastQuery' = Query("test", cause)
         /\ IF execute_ssh_query(cause) = "rows"
            THEN /\ probe' = [Logged(probe, <<"query?", "query_ok">>)
                                 EXCEPT !.database_connection_success = TRUE]
                 /\ probePc' = "table"
            ELSE /\ probe' = Logged(probe, <<"query?", "query_failed">>)
                 /\ probePc' = "returned"
    /\ UNCHANGED <<test_connection_success, tunnelVars, calcVars, pipeVars,
                   payVars, errVars>>

\* step 4: SELECT COUNT(*) FROM cash_out_txs
test_connection_table ==
    /\ probePc = "table"
    /\ \E cause \in QueryCauses("count") :
         /\ lastQuery' = Query("count", cause)
         /\ IF execute_ssh_query(cause) = "rows"
            THEN /\ probe' = Logged(probe, <<"table?", "table_ok">>)
                 /\ probePc' = "timezone"
            ELSE /\ probe' = Logged(probe, <<"table?", "table_failed">>)
                 /\ probePc' = "returned"
    /\ UNCHANGED <<test_connection_success, tunnelVars, calcVars, pipeVars,
                   payVars, errVars>>

\* step 5: the time and the timezone of the database; then success
test_connection_timezone ==
    /\ probePc = "timezone"
    /\ \E cause \in QueryCauses("timezone") :
         /\ lastQuery' = Query("timezone", cause)
         /\ probe' = [Logged(probe, <<"timezone?",
                                      IF execute_ssh_query(cause) = "rows"
                                      THEN "timezone_ok"
                                      ELSE "timezone_warning">>)
                         EXCEPT !.success = TRUE]
         /\ probePc' = "update"
    /\ UNCHANGED <<test_connection_success, tunnelVars, calcVars, pipeVars,
                   payVars, errVars>>

\* after the try: update_config_test_result(config_id, success), an
\* exception of which is logged; then return result
update_config_test_result ==
    /\ probePc = "update"
    /\ IF probe.config_id
       THEN \E written \in BOOLEAN :
              test_connection_success' =
                  IF written
                  THEN (IF probe.success THEN "True" ELSE "False")
                  ELSE test_connection_success
       ELSE UNCHANGED test_connection_success
    /\ probePc' = "returned"
    /\ UNCHANGED <<probe, lastQuery, tunnelVars, calcVars, pipeVars, payVars,
                   errVars>>

\* connect_to_lamassu_db, as poll_and_process calls it: with a configuration
\* found it writes True as the test result; an exception of the update is
\* logged
connect_to_lamassu_db ==
    /\ probePc \in {"idle", "returned"}
    /\ \E found, written \in BOOLEAN :
         test_connection_success' =
             IF found /\ written THEN "True" ELSE test_connection_success
    /\ UNCHANGED <<probePc, probe, lastQuery, tunnelVars, calcVars, pipeVars,
                   payVars, errVars>>

\* a query for data, made as fetch_new_transactions makes it
execute_ssh_query_data ==
    /\ probePc \in {"idle", "returned"}
    /\ \E cause \in QueryCauses("data") : lastQuery' = Query("data", cause)
    /\ UNCHANGED <<probePc, probe, test_connection_success, tunnelVars,
                   calcVars, pipeVars, payVars, errVars>>

ProbeOff ==
    /\ probePc = "idle"
    /\ probe = ProbeStart
    /\ lastQuery = NoQuery
    /\ test_connection_success = "None"
    /\ errPc = "off"
    /\ error_msg = {}
    /\ errOut = "none"

\* The words of an exception message that the handler of
\* test_connection_detailed looks for, in the two spellings that its use of
\* lower() tells apart
ErrorWords == {"cash_out_txs", "CASH_OUT_TXS", "ssh", "SSH", "connection",
               "permission denied", "authentication"}
\* error_msg.lower()
lower(msg) ==
    {IF x = "SSH" THEN "ssh" ELSE IF x = "CASH_OUT_TXS" THEN "cash_out_txs" ELSE x :
        x \in msg}

\* except Exception as e: the entry for the message str(e)
classify_error(msg) ==
    IF "cash_out_txs" \in msg THEN "table_missing"
    ELSE IF "ssh" \in lower(msg) \/ "connection" \in lower(msg) THEN "ssh_error"
    ELSE IF "permission denied" \in lower(msg) \/ "authentication" \in lower(msg)
    THEN "ssh_authentication_error"
    ELSE "unexpected_error"

\* the handler of test_connection_detailed on an exception
test_connection_except ==
    /\ errPc = "raised"
    /\ errOut' = classify_error(error_msg)
    /\ errPc' = "handled"
    /\ UNCHANGED <<error_msg, calcVars, pipeVars, tunnelVars, payVars, probeVars>>

Init ==
    /\ table = ArithmeticTable
    /\ PipeScenario /\ PipeStart /\ CalcIdle /\ TunnelOff /\ PayOff /\ ProbeOff

Worker(w) ==
    \/ poll_and_process_begin(w)
    \/ fetch_new_transactions(w)
    \/ poll_and_process_next(w)
    \/ \E t \in TxIds : process_transaction_direct(w, t)
    \/ process_transaction_gate(w)
    \/ credit_source_wallet(w)
    \/ store_lamassu_transaction(w)
    \/ process_transaction_calculate(w)
    \/ distribute_to_clients(w)
    \/ send_commission_payment(w)
    \/ update_distribution_stats(w)
    \/ poll_and_process_end(w)
Environment ==
    \/ Tick
    \/ \E t \in TxIds : AtmConfirms(t)
    \/ DepositConfirmed

\* one processor task: cycles and calls follow one another
Next == Worker(1) \/ Environment
Spec == Init /\ [][Next]_vars

\* poll cycles only, one after the other: poll_lamassu_transactions is the
\* only caller of the processor
PollCycle(w) ==
    \/ poll_and_process_begin(w)
    \/ fetch_new_transactions(w)
    \/ poll_and_process_next(w)
    \/ process_transaction_gate(w)
    \/ credit_source_wallet(w)
    \/ store_lamassu_transaction(w)
    \/ process_transaction_calculate(w)
    \/ distribute_to_clients(w)
    \/ send_commission_payment(w)
    \/ update_distribution_stats(w)
    \/ poll_and_process_end(w)
NextCycles == PollCycle(1) \/ Environment
SpecCycles == Init /\ [][NextCycles]_vars

\* two poll cycles on the one processor, interleaved at their awaits
\* (a transaction is confirmed, A and B have their deposits, no payment
\* is left from an earlier run)
OverlapScenario ==
    /\ ledger = [t \in TxIds |-> IF t = 1 THEN 0 ELSE None]
    /\ deposits = [c \in FlowClients |-> IF c # "C" THEN 0 ELSE None]
    /\ payments = <<>>
InitOverlap ==
    /\ table = ArithmeticTable
    /\ OverlapScenario /\ PipeStart /\ CalcIdle /\ TunnelOff /\ PayOff /\ ProbeOff
NextOverlap == PollCycle(1) \/ PollCycle(2) \/ Environment
SpecOverlap == InitOverlap /\ [][NextOverlap]_vars

InitCalc ==
    /\ table = <<>>
    /\ CalcInit /\ PipeOff /\ PipeStart /\ TunnelOff /\ PayOff /\ ProbeOff
NextCalc == Calculate /\ UNCHANGED <<pipeVars, tunnelVars, unitVars>>
SpecCalc == InitCalc /\ [][NextCalc]_vars

InitTunnel ==
    /\ SSH_AVAILABLE \in BOOLEAN
    /\ TunnelNew
    /\ table = <<>>
    /\ CalcIdle
    /\ PipeOff
    /\ PipeStart
    /\ PayOff
    /\ ProbeOff
NextTunnel ==
    \/ setup_ssh_tunnel
    \/ close_ssh_tunnel
    \/ TunnelExits
    \/ TempFileRemoved
SpecTunnel == InitTunnel /\ [][NextTunnel]_vars

\* send_dca_payment called once, for every client and every answer of the
\* wallet API
InitPayout ==
    /\ payPc = "call"
    /\ payIn \in PayInputs
    /\ payOut = NoPayment
    /\ table = <<>>
    /\ CalcIdle /\ PipeOff /\ PipeStart /\ TunnelOff /\ ProbeOff
NextPayout == send_dca_payment
SpecPayout == InitPayout /\ [][NextPayout]_vars

\* the connection test and data queries, one after the other
InitProbe ==
    /\ SSH_AVAILABLE \in BOOLEAN
    /\ TunnelNew
    /\ table = <<>>
    /\ CalcIdle /\ PipeOff /\ PipeStart /\ PayOff /\ ProbeOff
NextProbe ==
    \/ test_connection_config
    \/ test_connection_tunnel
    \/ test_connection_query
    \/ test_connection_table
    \/ test_connection_timezone
    \/ update_config_test_result
    \/ connect_to_lamassu_db
    \/ execute_ssh_query_data
SpecProbe == InitProbe /\ [][NextProbe]_vars

\* the handler of the connection test, on every message
InitError ==
    /\ errPc = "raised"
    /\ error_msg \in SUBSET ErrorWords
    /\ errOut = "none"
    /\ probePc = "idle" /\ probe = ProbeStart /\ lastQuery = NoQuery
    /\ test_connection_success = "None"
    /\ table = <<>>
    /\ CalcIdle /\ PipeOff /\ PipeStart /\ TunnelOff /\ PayOff
NextError == test_connection_except
SpecError == InitError /\ [][NextError]_vars

---------------------------------------------------------------------------
(* Properties of the poll cycle and the pipeline (Spec).                   *)

InTrace(w, step) == \E i \in DOMAIN trace[w] : trace[w][i] = step
effects == <<payments, storedTxs, payouts, credits, commPaid>>

C2_Theorem ==
    [][\A w \in Workers :
          (pc[w] = "gate" /\ pc'[w] # "gate" /\ existing_payments(cur[w]) # {})
              => (pc'[w] = "next" /\ UNCHANGED effects)]_vars

\* C2 witness: the gate has skipped a transaction that has a payment row
C2_Witness ==
    \E w \in Workers :
        /\ pc[w] = "next"
        /\ trace[w] = <<"skip">>
        /\ existing_payments(cur[w]) # {}
        /\ result[w][cur[w]] = "skipped"

\* C3: the steps of a transaction run in the order credit, store,
\* calculate, distribute, commission, statistics; the commission step and
\* the statistics step may be left out, no step runs before an earlier one.
StepOrder == <<"credit", "store", "calculate", "distribute">>
C3_Theorem ==
    \A w \in Workers :
        \/ trace[w] \in {<<>>, <<"skip">>, <<"credit_failed">>}
        \/ \E k \in 1..Len(StepOrder) : trace[w] = SubSeq(StepOrder, 1, k)
        \/ trace[w] \in {StepOrder \o <<"commission">>, StepOrder \o <<"stats">>,
                         StepOrder \o <<"commission", "stats">>}

\* C3 witness: a transaction with a commission has run through its steps
C3_Witness ==
    \E w \in Workers :
        /\ pc[w] = "next"
        /\ trace[w] = StepOrder \o <<"commission">>
        /\ commPaid[cur[w]] > 0

\* C4: when the credit of the source wallet fails the transaction ends
\* there, without a stored transaction, payment row, payout or commission
\* transfer, and the loop goes on with the rest of the batch.
C4_Theorem ==
    /\ [](\A w \in Workers : InTrace(w, "credit_failed") => trace[w] = <<"credit_failed">>)
    /\ [][\A w \in Workers :
            (pc[w] = "credit" /\ pc'[w] # "credit" /\ credits' = credits)
                => /\ pc'[w] = "next"
                   /\ batch'[w] = batch[w]
                   /\ UNCHANGED effects]_vars

\* C4 witness: the credit failed for one transaction of the batch and a
\* later transaction of the same batch has been credited
C4_Witness ==
    \E w \in Workers : \E t \in DOMAIN result[w] :
        /\ result[w][t] = "credit_failed"
        /\ credits[t] = 0
        /\ cur[w] \notin DOMAIN result[w]
        /\ cur[w] # None
        /\ trace[w] = <<"credit">>

\* C5 (as stated): when the allocation covers A, B and C and the wallet of
\* B is missing, A and C have payment rows with their allocated amounts
\* once distribute_to_clients has run.
C5_Counterexample ==
    \A w \in Workers :
        (InTrace(w, "distribute") /\ DOMAIN dist[w] = {"A", "B", "C"})
            => \A c \in {"A", "C"} :
                   \E i \in DOMAIN payments :
                       /\ payments[i].tx = cur[w]
                       /\ payments[i].client = c
                       /\ payments[i].sats = dist[w][c].sats

\* C6: the success time is written only by a cycle that fetched and handed
\* every fetched transaction to process_transaction; a cycle that ends in
\* the handler of poll_and_process leaves it as it was.
C6_Theorem ==
    \A w \in Workers :
        /\ outcome[w] \in {"no_config", "running", "error_at_start", "error_at_end"}
              => lastSuccess = succAtStart[w]
        /\ outcome[w] = "success"
              => (batch[w] = <<>> /\ DOMAIN result[w] = fetched[w])

\* C6 witness: a cycle processed its batch and ended in the handler; the
\* success time is still unset
C6_Witness ==
    \E w \in Workers :
        /\ outcome[w] = "error_at_end"
        /\ pc[w] = "idle"
        /\ fetched[w] # {}
        /\ DOMAIN result[w] = fetched[w]
        /\ lastSuccess = None

\* C7 (as stated): every cycle writes the attempted time at its start, the
\* cycles that end because the configuration is missing included.
C7_Counterexample ==
    \A w \in Workers :
        outcome[w] \in {"no_config", "running", "error_at_start", "error_at_end", "success"}
            => lastPoll = cycStart[w]

\* C7 (amended): every cycle that obtains the configuration and records its
\* start has the attempted time equal to its start time from before the
\* fetch to its end, however the fetch, the transactions and the recording
\* of the success end.
C7_Theorem ==
    \A w \in Workers :
        outcome[w] \in {"running", "error_at_end", "success"} => lastPoll = cycStart[w]

\* C7 witness: a cycle that started at hour 0 ended in the handler at hour
\* 1; the attempted time is its start
C7_Witness ==
    \E w \in Workers :
        /\ outcome[w] = "error_at_end"
        /\ cycStart[w] = 0
        /\ now = 1
        /\ lastPoll = 0

---------------------------------------------------------------------------
(* Properties of the arithmetic (SpecCalc).                                *)

\* floor(A / (1 + f)) for f = (pm / 1000) * (100 - discount) / 100, in exact
\* integer arithmetic: floor(A * 100000 / D), D = 100000 + pm * (100 - discount),
\* taken in three digits groups so that no product leaves 32 bits
ExactBase(crypto, pm, discount) ==
    LET D  == 100000 + pm * (100 - discount)
        r0 == crypto % D
        r1 == (r0 * 1000) % D
    IN  (crypto \div D) * 100000 + ((r0 * 1000) \div D) * 100 + ((r1 * 100) \div D)

CalcIncluded == {c \in CalcClients : calcBal[c] > 0}
CalcTotal    == SumBalances(calcBal, CalcIncluded)

\* C8 (as stated): for every gross amount A and effective commission
\* fraction f >= 0 the computed base is floor(A / (1 + f)), the commission
\* is A - base, and base <= A.
C8_Counterexample ==
    calcPc = "done" =>
        /\ calcDec.base = ExactBase(calcTx.crypto, calcTx.pm, calcTx.discount)
        /\ calcDec.commission = calcTx.crypto - calcDec.base
        /\ calcDec.base <= calcTx.crypto

\* C9: the shares of an allocation never add up to more than the base
\* amount, and they add up to exactly the base amount only when every
\* division base * balance / total is exact.
C9_Theorem ==
    (calcPc = "done" /\ calcDist # <<>>) =>
        /\ SumSats(calcDist, DOMAIN calcDist) <= calcDec.base
        /\ SumSats(calcDist, DOMAIN calcDist) = calcDec.base =>
              \A c \in DOMAIN calcDist : (calcDec.base * calcBal[c]) % CalcTotal = 0

\* C9 witness: balances 1 and 2 with base 10 give shares 3 and 6, one sat
\* is left undistributed
C9_Witness ==
    /\ calcPc = "done"
    /\ calcDec.base = 10
    /\ calcBal = [c \in CalcClients |-> IF c = "A" THEN 1 ELSE 2]
    /\ DOMAIN calcDist = CalcClients
    /\ calcDist["A"].sats = 3 /\ calcDist["B"].sats = 6

\* C10 (as stated): the allocation holds exactly the eligible participants
\* with a positive balance, each with the share
\* floor(base * balance / sum of those balances).
C10_Counterexample ==
    (calcPc = "done" /\ CalcTotal > 0) =>
        /\ DOMAIN calcDist = CalcIncluded
        /\ \A c \in DOMAIN calcDist :
              calcDist[c].sats = (calcDec.base * calcBal[c]) \div CalcTotal

---------------------------------------------------------------------------
(* Balances as of the transaction time, the tables and the batch (Spec).   *)

\* C11: the allocation of a transaction is computed from the balances as
\* of the transaction's confirmation time, not as of the clock: a deposit
\* confirmed after the transaction is left out of it, also when it is
\* already in the database at the time of the allocation.
C11_Theorem ==
    \A w \in Workers :
        pc[w] = "distribute" =>
            LET T == ledger[cur[w]]
            IN  /\ dist[w] = Distributions(cur[w],
                                 [c \in FlowClients |-> remaining_balance(c, T)])
                /\ \A c \in FlowClients :
                       (deposits[c] # None /\ deposits[c] > T) => c \notin DOMAIN dist[w]

\* C11 witness: a transaction confirmed at hour 0 is allocated at hour 1,
\* after the deposit of C was confirmed at hour 1, and C has no share
C11_Witness ==
    \E w \in Workers :
        /\ pc[w] = "distribute"
        /\ now > ledger[cur[w]]
        /\ deposits["C"] # None
        /\ deposits["C"] > ledger[cur[w]]
        /\ deposits["C"] <= now
        /\ DOMAIN dist[w] = {"A", "B"}

PairHasRow(rows, t, c) ==
    \E i \in DOMAIN rows : rows[i].tx = t /\ rows[i].client = c

C13_Counterexample ==
    /\ \A i \in DOMAIN storedTxs : credits[storedTxs[i].tx] > 0
    /\ \A w \in Workers :
           (InTrace(w, "store") /\ credits[cur[w]] > 0)
               => Cardinality({i \in DOMAIN storedTxs : storedTxs[i].tx = cur[w]}) = 1

Range(q) == {q[i] : i \in DOMAIN q}
InHand(w) == IF cur[w] = None THEN {} ELSE {cur[w]}

\* C14: every transaction the fetch of a cycle returned is handed to
\* process_transaction: while the cycle runs each of them has ended, is in
\* hand or is still in the batch, and when the loop is over each of them
\* has ended, whatever the earlier ones ended in.
C14_Theorem ==
    \A w \in Workers :
        /\ (outcome[w] = "running" /\ pc[w] \notin {"idle", "fetch"})
               => fetched[w] = DOMAIN result[w] \cup InHand(w) \cup Range(batch[w])
        /\ (pc[w] = "finish" \/ outcome[w] \in {"success", "error_at_end"})
               => DOMAIN result[w] = fetched[w]

\* C14 witness: a transaction of the batch has ended in an exception and
\* the next one of the same batch has been handed to process_transaction
C14_Witness ==
    \E w \in Workers : \E t \in DOMAIN result[w] :
        /\ outcome[w] = "running"
        /\ result[w][t] = "error"
        /\ pc[w] = "gate"
        /\ cur[w] # t
        /\ cur[w] \in fetched[w]

\* C15: within a cycle a transaction is taken in hand only when the one
\* before it has ended, and every step that runs belongs to the one
\* transaction in hand, which has not ended yet.
C15_Theorem ==
    /\ [](\A w \in Workers :
            pc[w] \in {"gate", "credit", "store", "calculate", "distribute",
                       "commission", "stats"}
                => (cur[w] # None /\ cur[w] \notin DOMAIN result[w]))
    /\ [][\A w \in Workers :
            /\ (cur'[w] # cur[w] /\ cur'[w] # None)
                   => (cur[w] = None \/ cur[w] \in DOMAIN result[w])
            /\ (trace'[w] # trace[w] /\ trace'[w] # <<>>)
                   => (cur'[w] = cur[w] /\ cur[w] \notin DOMAIN result[w])]_vars

\* C15 witness: the first transaction of a batch went through all its
\* steps and the second is at its credit step
C15_Witness ==
    \E w \in Workers : \E t \in DOMAIN result[w] :
        /\ outcome[w] = "running"
        /\ result[w][t] = "done"
        /\ pc[w] = "credit"
        /\ cur[w] # t
        /\ credits[t] > 0
        /\ credits[cur[w]] = 0

\* C16: the list fetch_new_transactions returns holds no transaction that
\* a row of the payment table names.
C16_Theorem ==
    [][\A w \in Workers :
         (pc[w] = "fetch" /\ pc'[w] = "next")
             => /\ Range(batch'[w]) = fetched'[w]
                /\ \A t \in fetched'[w] : existing_payments(t) = {}]_vars

\* C16 witness: the query returned two transactions, one of them named by
\* a payment row, and the fetch returned the other one only
C16_Witness ==
    \E w \in Workers : \E t \in all_transactions :
        /\ pc[w] = "next"
        /\ cur[w] = None
        /\ result[w] = <<>>
        /\ existing_payments(t) # {}
        /\ fetched[w] # {}
        /\ t \notin fetched[w]
        /\ Range(batch[w]) = fetched[w]

---------------------------------------------------------------------------
(* Properties of the SSH tunnel (SpecTunnel).                              *)

\* a step of close_ssh_tunnel called by itself
CloseStep == lastOp' = "close" /\ prevOp' = lastOp
NothingHeld == ~ssh_process /\ ~ssh_key_path /\ ~ssh_config_path

\* C17: a call of close_ssh_tunnel, whatever the subprocess and the files
\* are in, attempts to terminate the subprocess it holds (and to kill it
\* only when the termination raised), to delete the key file and to delete
\* the config file it holds a path of, each whether or not an earlier step
\* raised, and leaves the processor with no handle and no path.
C17_Theorem ==
    [][CloseStep =>
         /\ ssh_process => "terminate" \in attempts'
         /\ "kill" \in attempts' <=> "terminate" \in failed'
         /\ ssh_key_path => "unlink_key" \in attempts'
         /\ ssh_config_path => "unlink_config" \in attempts'
         /\ failed' \subseteq attempts'
         /\ ~ssh_process' /\ ~procAlive'
         /\ ~ssh_key_path' /\ ~keyFile'
         /\ ~ssh_config_path' /\ ~configFile']_vars

\* C17 witness: the termination raised, the key file was already removed
\* so that its deletion raised, the deletion of the config file was still
\* attempted, and nothing is held
C17_Witness ==
    /\ lastOp = "close"
    /\ {"terminate", "unlink_key"} \subseteq failed
    /\ "unlink_config" \in attempts
    /\ "unlink_config" \notin failed
    /\ NothingHeld

\* C18: a call of close_ssh_tunnel that follows another call of it, or
\* that finds nothing held, attempts nothing, raises nothing and changes
\* neither the channel nor anything on disk.
C18_Theorem ==
    [][(CloseStep /\ (lastOp = "close" \/ NothingHeld)) =>
         /\ attempts' = {}
         /\ failed' = {}
         /\ UNCHANGED <<channelVars, setupVars>>]_vars

\* C18 witness: a tunnel was established, close_ssh_tunnel was called twice
\* in a row, and the second call attempted nothing
C18_Witness ==
    /\ lastOp = "close"
    /\ prevOp = "close"
    /\ returned = "tunnel_config"
    /\ attempts = {}
    /\ NothingHeld

\* C19 (as stated): when setup_ssh_tunnel returns None the processor holds
\* no subprocess handle and no path, no subprocess of it runs and no
\* temporary file of it is on disk.
C19_Counterexample ==
    (lastOp = "setup" /\ returned = "None") =>
        /\ ~ssh_process /\ ~procAlive
        /\ ~ssh_key_path /\ ~keyFile
        /\ ~ssh_config_path /\ ~configFile

\* C20: a setup with a password and without the helper, and a setup with
\* neither password nor key, return None without starting a tunnel
\* subprocess; the second writes no credential file either.
C20_Theorem ==
    (lastOp = "setup" /\ path \in {"helper_missing", "no_credential"}) =>
        /\ returned = "None"
        /\ ~launched
        /\ ~ssh_process /\ ~procAlive
        /\ path = "no_credential" =>
               (~wrote /\ ~ssh_key_path /\ ~keyFile /\ ~ssh_config_path /\ ~configFile)

\* C20 witness: after a tunnel was set up and closed, a setup with a
\* password finds the helper missing and returns None
C20_Witness ==
    /\ lastOp = "setup"
    /\ prevOp = "close"
    /\ path = "helper_missing"
    /\ returned = "None"
    /\ ~launched

---------------------------------------------------------------------------
(* The empty allocation and the failed fetch (Spec), the fiat equivalent   *)
(* (SpecCalc).                                                             *)

NoPositiveBalance(t) ==
    \A c \in FlowClients : remaining_balance(c, ledger[t]) <= 0

\* C24: when no flow-mode client has a positive balance as of the
\* transaction time the allocation is empty and the transaction ends
\* there, after the credit and the store step, without payment row, payout
\* or commission transfer; the loop goes on with the rest of the batch.
C24_Theorem ==
    /\ [](\A w \in Workers :
            (pc[w] = "next" /\ cur[w] # None /\ cur[w] \in DOMAIN result[w]
             /\ result[w][cur[w]] = "no_distribution")
                => (trace[w] = <<"credit", "store", "calculate">> /\ dist[w] = <<>>))
    /\ [][\A w \in Workers :
            /\ (pc[w] = "calculate" /\ pc'[w] # "calculate" /\ NoPositiveBalance(cur[w]))
                   => pc'[w] = "next"
            /\ (pc[w] = "calculate" /\ pc'[w] = "next")
                   => /\ result'[w] = (cur[w] :> "no_distribution") @@ result[w]
                      /\ batch'[w] = batch[w]
                      /\ outcome'[w] = outcome[w]
                      /\ UNCHANGED effects]_vars

\* C24 witness: no client is funded, a transaction was credited and ended
\* with the empty allocation, nothing was paid, and the cycle recorded its
\* success
C24_Witness ==
    \E w \in Workers : \E t \in DOMAIN result[w] :
        /\ outcome[w] = "success"
        /\ result[w][t] = "no_distribution"
        /\ NoPositiveBalance(t)
        /\ credits[t] > 0
        /\ commPaid[t] = 0
        /\ payments = <<>>
        /\ payouts = <<>>

\* C27: a failed query at the fetch returns the empty list and raises
\* nothing: the cycle goes on to its loop with no transaction, no table is
\* written, and the cycle does not end in its handler.
C27_Theorem ==
    /\ [](\A w \in Workers :
            (pc[w] = "finish" /\ fetched[w] = {}) => result[w] = <<>>)
    /\ [][\A w \in Workers :
            (pc[w] = "fetch" /\ pc'[w] # "fetch")
                => /\ pc'[w] = "next"
                   /\ outcome'[w] = "running"
                   /\ fetched'[w] \subseteq all_transactions \ processed_transaction_ids
                   /\ Range(batch'[w]) = fetched'[w]
                   /\ UNCHANGED effects]_vars

\* C27 witness: the ledger holds a new transaction, the fetch has returned
\* the empty list, and the cycle is at its loop
C27_Witness ==
    \E w \in Workers :
        /\ pc[w] = "next"
        /\ outcome[w] = "running"
        /\ cur[w] = None
        /\ result[w] = <<>>
        /\ fetched[w] = {}
        /\ batch[w] = <<>>
        /\ all_transactions \ processed_transaction_ids # {}

\* C28 (as stated): the fiat equivalent of a share is
\* floor(share / (base / fiat)) = floor(share * fiat / base) when the fiat
\* amount and the base are positive, and 0 otherwise.
C28_Counterexample ==
    (calcPc = "done" /\ calcDist # <<>>) =>
        \A c \in DOMAIN calcDist :
            calcDist[c].fiat =
                IF calcTx.fiat > 0 /\ calcDec.base > 0
                THEN (calcDist[c].sats * calcTx.fiat) \div calcDec.base
                ELSE 0

---------------------------------------------------------------------------
(* The commission transfer and the statistics (Spec).                      *)

\* send_commission_payment, for every amount and every answer of the wallet
\* API: a transfer is made only with a commission wallet and is of the
\* amount given; with a source wallet the invoice is asked for exactly when
\* a commission wallet is configured, and paid then if nothing fails
CommissionIssued ==
    \A amount \in 0..3 :
      \A commission_wallet_id, source_wallet_id, invoice_ok, pay_ok \in BOOLEAN :
        LET r == commission_payment(amount, commission_wallet_id,
                                    source_wallet_id, invoice_ok, pay_ok)
        IN  /\ r.transfer => (commission_wallet_id /\ r.issued /\ r.amount = amount)
            /\ source_wallet_id => (r.issued <=> commission_wallet_id)
            /\ (source_wallet_id /\ invoice_ok /\ pay_ok)
                   => (r.transfer <=> commission_wallet_id)

\* C25: send_commission_payment asks for the invoice exactly when a
\* commission wallet is configured (the source wallet being there) and pays
\* exactly the amount it was given; in process_transaction a commission
\* transfer is made only at the commission step of a distributed
\* transaction with a positive commission crypto - base, one at most, and
\* whatever the step ends in the statistics step comes next.
C25_Theorem ==
    /\ []CommissionIssued
    /\ [][/\ commPaid' # commPaid =>
               \E w \in Workers :
                   /\ pc[w] = "commission"
                   /\ InTrace(w, "distribute")
                   /\ comm[w] > 0
                   /\ comm[w] = TxData(cur[w]).crypto - Decomposed(cur[w]).base
                   /\ commPaid' = [commPaid EXCEPT ![cur[w]] = @ + 1]
          /\ \A w \in Workers :
               (pc[w] = "commission" /\ pc'[w] # "commission")
                   => /\ pc'[w] = "stats"
                      /\ cur'[w] = cur[w]
                      /\ comm[w] = 0 => commPaid' = commPaid]_vars

\* C25 witness: a transaction with a positive commission was distributed,
\* the commission transfer was made once, and the statistics step is next
C25_Witness ==
    \E w \in Workers :
        /\ pc[w] = "stats"
        /\ trace[w] = StepOrder \o <<"commission">>
        /\ comm[w] > 0
        /\ comm[w] = TxData(cur[w]).crypto - Decomposed(cur[w]).base
        /\ credits[cur[w]] = 1
        /\ commPaid[cur[w]] = 1

RECURSIVE PaidSats(_, _)
PaidSats(rows, t) ==
    IF rows = <<>> THEN 0
    ELSE PaidSats(Tail(rows), t) + (IF Head(rows).tx = t THEN Head(rows).sats ELSE 0)

\* C26 (as stated): when a transaction has been distributed and its
\* processing is over, its StoredTransaction carries the number of clients
\* of the allocation and the sum of the payouts made for it.
C26_Counterexample ==
    \A w \in Workers :
        (pc[w] = "next" /\ cur[w] # None /\ cur[w] \in DOMAIN result[w]
         /\ result[w][cur[w]] = "done" /\ credits[cur[w]] = 1)
            => \E i \in DOMAIN storedTxs :
                   /\ storedTxs[i].tx = cur[w]
                   /\ storedTxs[i].clients = Cardinality(DOMAIN dist[w])
                   /\ storedTxs[i].distributed = PaidSats(payouts, cur[w])

---------------------------------------------------------------------------
(* The payout to one client (SpecPayout).                                  *)

\* C29: in send_dca_payment, when the wallet of the client exists and the
\* invoice was created but no source wallet is configured, pay_invoice is
\* not called and the call returns True; when the wallet of the client is
\* missing the call returns False (it does not raise) and no invoice is
\* created.
C29_Theorem ==
    payPc = "done" =>
        /\ (payIn.wallet = "found" /\ payIn.invoice = "ok" /\ payIn.admin_config
            /\ ~payIn.source_wallet_id)
               => /\ payOut.success
                  /\ ~payOut.pay_invoice
                  /\ payOut.invoice = payIn.amount
        /\ payIn.wallet = "missing"
               => /\ ~payOut.success
                  /\ payOut.invoice = 0
                  /\ ~payOut.pay_invoice
        /\ payOut.pay_invoice => (payIn.source_wallet_id /\ payOut.invoice = payIn.amount)

\* C29 witness: the invoice of a client with a wallet was created and left
\* unpaid for lack of a source wallet, and the call returned True
C29_Witness ==
    /\ payPc = "done"
    /\ ClientHasWallet(payIn.client)
    /\ payIn.wallet = "found" /\ payIn.invoice = "ok"
    /\ payIn.admin_config /\ ~payIn.source_wallet_id
    /\ payOut = [success |-> TRUE, invoice |-> payIn.amount, pay_invoice |-> FALSE]

---------------------------------------------------------------------------
(* The queries and the connection test (SpecProbe), the handler of the     *)
(* test (SpecError).                                                       *)

QueryFailures == {"no_key", "auth_failure", "unreachable", "command_not_found",
                  "table_not_found"}

\* C21 (as stated): execute_ssh_query returns an empty result for an empty
\* result set, and what it returns on a failure differs from what it
\* returns for an empty result set.
C21_Counterexample ==
    /\ lastQuery.cause = "empty" => lastQuery.returned = "[]"
    /\ lastQuery.cause \in QueryFailures => lastQuery.returned # "[]"

\* C22 (as stated): when test_connection_detailed has returned and a
\* configuration was found, the stored test result equals the success
\* value returned.
C22_Counterexample ==
    (probePc = "returned" /\ probe.config_id)
        => test_connection_success = (IF probe.success THEN "True" ELSE "False")

\* the stage of an entry of the step log
StageNo(entry) ==
    CASE entry \in {"config?", "config_missing", "config_ok"} -> 1
      [] entry \in {"tunnel?", "ssh_missing", "tunnel_failed", "tunnel_ok", "direct"} -> 2
      [] entry \in {"query?", "query_failed", "query_ok"} -> 3
      [] entry \in {"table?", "table_failed", "table_ok"} -> 4
      [] entry \in {"timezone?", "timezone_ok", "timezone_warning"} -> 5
StageOpenings == {"config?", "tunnel?", "query?", "table?", "timezone?"}
HardFailures  == {"config_missing", "ssh_missing", "tunnel_failed",
                  "query_failed", "table_failed"}
FourPassed(log) ==
    /\ {"config_ok", "query_ok", "table_ok"} \subseteq Range(log)
    /\ Range(log) \cap {"tunnel_ok", "direct"} # {}
PcNo(p) ==
    CASE p = "idle" -> 0 [] p = "tunnel" -> 2 [] p = "query" -> 3
      [] p = "table" -> 4 [] p = "timezone" -> 5 [] p = "update" -> 6
      [] p = "returned" -> 7

\* C23: the step log of test_connection_detailed lists the stages in the
\* order configuration, tunnel (or the note of a direct connection), test
\* query, table, timezone, none twice and none without the ones before it
\* having passed; every stage attempted has its opening entry followed by
\* the entry of how it ended; an entry of a hard failure is the last entry
\* and the test returns with it; success is true on return exactly when the
\* first four stages passed, whether the timezone query gave rows or not;
\* tunnel success implies tunnel used and success implies database
\* connection success; and the test moves forward through the stages only.
C23_Theorem ==
    /\ [](LET log == probe.steps
          IN  /\ \A i, j \in DOMAIN log :
                    i < j => /\ StageNo(log[i]) <= StageNo(log[j])
                             /\ log[i] # log[j]
              /\ \A i \in DOMAIN log :
                    /\ log[i] \in StageOpenings
                          => /\ i + 1 \in DOMAIN log
                             /\ log[i + 1] \notin StageOpenings
                             /\ StageNo(log[i + 1]) = StageNo(log[i])
                    /\ log[i] \in HardFailures
                          => i = Len(log) /\ probePc = "returned"
                    /\ StageNo(log[i]) > 1
                          => \E k \in DOMAIN log :
                                 /\ StageNo(log[k]) = StageNo(log[i]) - 1
                                 /\ log[k] \in {"config_ok", "tunnel_ok", "direct",
                                                "query_ok", "table_ok"}
              /\ probe.success <=> (probePc \in {"update", "returned"} /\ FourPassed(log))
              /\ probe.success => Range(log) \cap {"timezone_ok", "timezone_warning"} # {}
              /\ probe.ssh_tunnel_success => probe.ssh_tunnel_used
              /\ probe.ssh_tunnel_success <=> "tunnel_ok" \in Range(log)
              /\ probe.ssh_tunnel_used <=> "tunnel?" \in Range(log)
              /\ probe.database_connection_success <=> "query_ok" \in Range(log)
              /\ probe.success => probe.database_connection_success)
    /\ [][probePc' # probePc
             => \/ probePc \in {"idle", "returned"} /\ probePc' \in {"tunnel", "returned"}
                \/ probePc \notin {"idle", "returned"} /\ PcNo(probePc') > PcNo(probePc)]_vars

\* C23 witness: the test has returned success through a tunnel although the
\* timezone query gave nothing
C23_Witness ==
    /\ probePc = "returned"
    /\ probe.success
    /\ probe.steps = <<"config?", "config_ok", "tunnel?", "tunnel_ok",
                       "query?", "query_ok", "table?", "table_ok",
                       "timezone?", "timezone_warning">>
    /\ lastQuery = Query("timezone", "unreachable")

\* C30 (as stated): an exception whose message contains 'permission denied'
\* or 'authentication' is reported as an authentication failure, whatever
\* else the message contains.
C30_Counterexample ==
    (errPc = "handled"
     /\ lower(error_msg) \cap {"permission denied", "authentication"} # {})
        => errOut = "ssh_authentication_error"

---------------------------------------------------------------------------
(* Poll cycles one after the other (SpecCycles).                           *)

\* C31 (as stated): over poll cycles that do not overlap, the source wallet
\* is credited at most once for each transaction.
C31_Counterexample == \A t \in TxIds : credits[t] <= 1

\* C32 (as stated), for the first poll cycle: when it has recorded its
\* success, every dispensed transaction confirmed before the recorded time
\* (and within the 24 hours before the cycle) was handed to
\* process_transaction by it or has a payment from an earlier run.
C32_Counterexample ==
    \A w \in Workers :
        (calls = 1 /\ pc[w] = "idle" /\ outcome[w] = "success"
         /\ lastSuccess # None)
            => \A t \in TxIds :
                   (ledger[t] # None /\ ledger[t] < lastSuccess
                    /\ ledger[t] > cycStart[w] - LookbackHours)
                       => t \in DOMAIN result[w] \cup processed_transaction_ids

---------------------------------------------------------------------------
(* What one transaction moves out of the source wallet (SpecCalc).         *)

\* C33: for every transaction the base amount and the commission add up to
\* the amount credited, and the shares of the allocation together with the
\* commission never exceed it.
C33_Theorem ==
    calcPc = "done" =>
        /\ calcDec.base + calcDec.commission = calcTx.crypto
        /\ calcDec.commission >= 0
        /\ SumSats(calcDist, DOMAIN calcDist) + calcDec.commission <= calcTx.crypto

\* C33 witness: a transaction with a commission is shared between two
\* clients, and shares and commission stay below the amount credited
C33_Witness ==
    /\ calcPc = "done"
    /\ calcDec.commission > 0
    /\ DOMAIN calcDist = CalcClients
    /\ \A c \in CalcClients : calcDist[c].sats > 0
    /\ SumSats(calcDist, DOMAIN calcDist) + calcDec.commission < calcTx.crypto

---------------------------------------------------------------------------
(* The status a distribution leaves (Spec).                                *)

---------------------------------------------------------------------------
(* The tunnel and the stored result after a connection test (SpecProbe).   *)

\* C35 (as stated): when test_connection_detailed has returned from a run
\* that set up a tunnel, the processor holds no subprocess handle and no
\* path of a temporary key or config file.
C35_Counterexample ==
    (probePc = "returned" /\ probe.ssh_tunnel_used)
        => ~ssh_process /\ ~ssh_key_path /\ ~ssh_config_path

\* C37 (as stated): the stored test result becomes True only at the end of
\* a connection test that passed its stages.
C37_Counterexample ==
    [][(test_connection_success' = "True" /\ test_connection_success # "True")
           => (probePc = "update" /\ probe.success)]_vars

---------------------------------------------------------------------------
(* Two poll cycles at once (SpecOverlap).                                  *)

\* C36 (as stated): when two poll cycles that run at the same time have the
\* same transaction in hand, the source wallet is credited at most once for
\* it and no client has two payments for it.
C36_Counterexample ==
    \A t \in TxIds :
        (calls = 2 /\ \A w \in Workers : outcome[w] = "running" /\ cur[w] = t)
            => /\ credits[t] <= 1
               /\ \A i, j \in DOMAIN payments :
                      (payments[i].tx = t /\ payments[j].tx = t
                       /\ payments[i].client = payments[j].client) => i = j
=============================================================================
